---- MODULE Spec2Model ----
(***************************************************************************)
(* Write-buffering / batch-flush subsystem of the stats service:           *)
(* Flusher (server/stats flusher), Queue (server/stats/queue.go) and       *)
(* Server.Shutdown.  Producers call Flusher.Push concurrently; one         *)
(* background goroutine runs Flusher.run.                                   *)
(***************************************************************************)
EXTENDS Integers, Sequences, FiniteSets, TLC

(* ------------------------------ bounds --------------------------------- *)
\* number of concurrent request goroutines calling Flusher.Push
NumProducers == 2
\* total number of Flusher.Push calls made in Spec, and of concurrent ones in SpecPush
MaxPush == 2
\* SpecPush: number of Push calls already completed one after the other (up to
\* two rounds over the shards) before the concurrent ones start
MaxPushed == 32
\* number of timer ticks the ticker delivers in Spec, SpecDrain, SpecFlush
MaxTicks == 2
\* number of Flusher.Push calls made in SpecDrain, on top of the buffered items
DrainPush == 1
\* number of Flusher.Push calls made, and of timer ticks delivered, in FairSpec
FairPush == 1
FairTicks == 1
\* number of times the teardown code calls Server.Shutdown
MaxShutdown == 2

\* number of Server.Push calls made in SpecServer
MaxRequests == 2
\* largest id and section of a PushRequest tried in SpecServer
MaxField == 1

\* number of calls the single caller of SpecPool makes on its queue
MaxPoolOps == 4

\* largest ConnectionOptions.Retries tried in SpecConnect
MaxRetries == 3
\* seconds of time that pass in SpecConnect
MaxClock == 3

\* largest number of statements in a migration file tried in SpecMigrate
MaxStmts == 2

(* ------------------------- program constants --------------------------- *)
\* queueSize := 1 << 4
queueSize == 16
\* queueMask: uint32(queueSize - 1)
queueMask == queueSize - 1
\* batchInsertSize = 1000
batchInsertSize == 1000
\* queueIndex is an atomic.Uint32: it is kept as two 16-bit halves, hi * 2^16 + lo
Half == 65536

\* options.ConnectTimeout = 5 * time.Minute, options.RetryDelay = 5 * time.Second,
\* in seconds
DefaultConnectTimeout == 300
DefaultRetryDelay == 5

\* ConnectionOptions tried in SpecConnect (durations in seconds)
RetryDelays == {0, 1}
ConnectTimeouts == {0, 2}
ConnectionOptions ==
  [Retries : 0..MaxRetries, RetryDelay : RetryDelays, ConnectTimeout : ConnectTimeouts]

\* the migrate target runs the migration program twice
MigrateRuns == 2

\* File names are [stem, suffix]; sort.Strings orders them by stem, then suffix.
\* migrations.sql, two *.up.sql files and a file that does not match *.up.sql
MainFile == [stem |-> "migrations", suffix |-> ".sql"]
UpFiles == {[stem |-> "1", suffix |-> ".up.sql"], [stem |-> "2", suffix |-> ".up.sql"]}
DownFile == [stem |-> "1", suffix |-> ".down.sql"]
FileNames == {MainFile, DownFile} \cup UpFiles

\* a project's FS, each file given by its number of statements (0: empty file)
Projects ==
  {fs \in [FileNames -> 0..MaxStmts] : fs[MainFile] > 0 /\ fs[DownFile] = 1}

Producers == 1..NumProducers
Shards == 0..(queueSize - 1)

\* shards that hold buffered events in the initial states of SpecFlush, SpecDrain
LoadedShards == {2, 3}
\* buffered lengths tried in the initial states of SpecFlush
PreloadSizes == {0, 1, 1000, 1001, 2500}
\* buffered lengths tried in the initial states of SpecDrain
DrainSizes == {0, 1, 2}

\* buffered lengths tried in the initial states of SpecFifo: two chunks or none
FifoSizes == {0, 1001}

VARIABLES
  enabled,      \* Flusher.enabled (atomic.Bool)
  queueIndex,   \* Flusher.queueIndex (atomic.Uint32)
  queues,       \* Flusher.queues[i].values, i in Shards
  ctxDone,      \* the parent context handed to run() is cancelled
  done,         \* Flusher.Done() is closed (job.finish was called)
  runPc,        \* position of the run goroutine
  final,        \* the flush in progress was called from the cancel branch
  flushK,       \* loop variable k of flush
  length,       \* local `length` of Queue.Clear
  rows,         \* local `rows` of flush
  ticks,        \* timer ticks consumed so far
  pc,           \* position of each producer inside Flusher.Push
  item,         \* the item each producer is pushing
  index,        \* local `index` of Flusher.Push
  calls,        \* number of Push calls started so far (also the last item id)
  shutPc,       \* position of the teardown code in Server.Shutdown
  shutReturns,  \* number of Shutdown calls that have returned
  appended,     \* history: per shard, every item ever appended
  drained,      \* history: per shard, every item ever returned by Clear
  inserts,      \* history: every NamedExec call of flush, in call order
  accepted,     \* history: items whose Push returned nil
  rejected,     \* history: items whose Push returned errFlusherDisabled
  late,         \* history: items whose Push was called after a Shutdown returned
  clears,       \* history: per shard, number of Clear calls flush has made
  pushLimit,    \* how many Push calls this run makes
  tickLimit,    \* how many timer ticks this run delivers
  locked,       \* the shards whose Queue mutex is held for writing
  pushFrom,     \* where producers call Flusher.Push from: "idle" (directly) or
                \* "row" (from Server.Push, after the row has been built)
  srvCalls,     \* number of Server.Push calls made so far
  srvLast,      \* the last Server.Push call: its request, the outcome of
                \* sonyflake.NextID, and the error it found before Flusher.Push
  httpReq,      \* an HTTP request to Push: its X-Forwarded-For and X-Real-IP
                \* headers, its RemoteAddr, and whether WrapWithIP is installed
  httpPc,       \* position of the request: "start", "handler" (Server.Push is
                \* about to be called), "flusher" (inside Flusher.Push), "returned"
  httpCtx,      \* the context the handler holds
  httpCancelled,\* the request's context has been cancelled (client gone)
  httpBy,       \* the producer that runs the request's Server.Push
  httpRow,      \* the row Server.Push built: its RemoteIP
  poolKind,     \* a Queue or a Pool used on its own by one caller: which type
  poolValues,   \* its values
  poolPc,       \* position of the caller: "idle", or "split" inside Clear
  poolLength,   \* local `length` of Clear
  poolSince,    \* history: the items pushed since creation or the last Clear
  poolLast,     \* the last call that returned, and what it returned
  poolOps,      \* number of calls that have returned
  clearPc,      \* two goroutines calling Clear on that Queue or Pool: position
                \* of each, "idle", "split" inside Clear, or "panic"
  clearLength,  \* each goroutine's local `length` of Clear
  clearReturned,\* history: the items each goroutine's Clear calls returned
  clearCalls,   \* number of Clear calls each goroutine has started
  connIn,       \* ConnectWithRetry: the options the caller passed
  connOpts,     \* the local `options`, after the defaults
  connCtx,      \* ctx is cancelled
  connPc,       \* position of the caller inside ConnectWithRetry
  connGo,       \* position of the retry goroutine
  connTry,      \* the goroutine's local `try`
  connDb,       \* the named result `db`
  connErr,      \* the named result `err`
  connCh,       \* connErrCh: the buffered errors (capacity 1)
  connClosed,   \* connErrCh has been closed
  connRet,      \* what ConnectWithRetry returned
  connNow,      \* seconds since ConnectWithRetry was called
  connWake,     \* when the goroutine's time.After(options.RetryDelay) fires
  connAttempts, \* history: number of ConnectWithOptions calls
  connFailures, \* history: number of ConnectWithOptions calls that failed
  migFS,        \* db.Run: migrations[project], the project's files
  migTable,     \* the rows of the migrations table, by filename
  migPc,        \* position inside Run / migrate
  migRun,       \* number of Run calls started
  migFile,      \* position of the current file in the list Run goes through
  migStatus,    \* the local `status` of migrate
  migIdx,       \* loop variable idx of up()
  migErr,       \* the error up() returned
  migResults,   \* history: what each Run call returned
  migLog        \* history: every db.Get, db.Exec, skip and status write

vars == <<enabled, queueIndex, queues, ctxDone, done, runPc, final, flushK,
          length, rows, ticks, pc, item, index, calls, shutPc,
          shutReturns, appended, drained, inserts, accepted, rejected,
          late, clears, pushLimit, tickLimit, locked, pushFrom, srvCalls, srvLast,
          httpReq, httpPc, httpCtx, httpCancelled, httpBy, httpRow,
          poolKind, poolValues, poolPc, poolLength, poolSince, poolLast, poolOps,
          clearPc, clearLength, clearReturned, clearCalls,
          connIn, connOpts, connCtx, connPc, connGo, connTry, connDb, connErr,
          connCh, connClosed, connRet, connNow, connWake, connAttempts,
          connFailures, migFS, migTable, migPc, migRun, migFile, migStatus,
          migIdx, migErr, migResults, migLog>>

runVars == <<runPc, final, flushK, length, rows, ticks>>
pushVars == <<pc, item, index, calls>>
shutVars == <<shutPc, shutReturns>>
histVars == <<appended, drained, inserts, accepted, rejected, late, clears>>
httpVars == <<httpReq, httpPc, httpCtx, httpCancelled, httpBy, httpRow>>
srvVars == <<srvCalls, srvLast, httpVars>>
clearVars == <<clearPc, clearLength, clearReturned, clearCalls>>
poolVars == <<poolKind, poolValues, poolPc, poolLength, poolSince, poolLast, poolOps,
              clearVars>>
\* the state of the code used apart from the stats server
connVars == <<connIn, connOpts, connCtx, connPc, connGo, connTry, connDb, connErr,
              connCh, connClosed, connRet, connNow, connWake, connAttempts,
              connFailures>>
migVars == <<migFS, migTable, migPc, migRun, migFile, migStatus, migIdx, migErr,
             migResults, migLog>>
libVars == <<poolVars, connVars, migVars>>
\* what the Flusher's own steps never touch
otherVars == <<pushFrom, srvVars, libVars>>
\* the state of the stats server: Flusher, queues, Server.Push, Server.Shutdown
statsVars == <<enabled, queueIndex, queues, ctxDone, done, runVars, pushVars, shutVars,
               histVars, pushLimit, tickLimit, locked, pushFrom, srvVars>>

(* ------------------------------ helpers -------------------------------- *)
\* the & operator on unsigned integers
RECURSIVE BitAnd(_, _)
BitAnd(x, y) ==
  IF x = 0 \/ y = 0 THEN 0
  ELSE (x % 2) * (y % 2) + 2 * BitAnd(x \div 2, y \div 2)

\* the uint32 with value n, 0 <= n < 2^31
U32(n) == [hi |-> n \div Half, lo |-> n % Half]

\* Inc on a counter that stops at its largest value instead of wrapping
IncSaturate(v) ==
  IF v.lo + 1 < Half THEN [hi |-> v.hi, lo |-> v.lo + 1]
  ELSE IF v.hi + 1 < Half THEN [hi |-> v.hi + 1, lo |-> 0]
  ELSE v

\* atomic.Uint32.Inc: the new value, wrapping from 2^32 - 1 to 0
Inc(v) ==
  IF v.lo + 1 < Half THEN [hi |-> v.hi, lo |-> v.lo + 1]
  ELSE [hi |-> (v.hi + 1) % Half, lo |-> 0]

\* v & m for a uint32 v and a mask m < 2^31
AndMask(v, m) == BitAnd(v.lo, m % Half) + Half * BitAnd(v.hi, m \div Half)

Min(a, b) == IF a < b THEN a ELSE b

Range(s) == {s[i] : i \in 1..Len(s)}

\* s[lo:hi] of Go, 0-based, hi exclusive
Slice(s, lo, hi) == SubSeq(s, lo + 1, hi)

RECURSIVE SumLen(_, _)
SumLen(q, S) ==
  IF S = {} THEN 0
  ELSE LET k == CHOOSE x \in S : TRUE IN Len(q[k]) + SumLen(q, S \ {k})

RECURSIVE SumLoad(_, _)
SumLoad(load, S) ==
  IF S = {} THEN 0
  ELSE LET k == CHOOSE x \in S : TRUE IN load[k] + SumLoad(load, S \ {k})

\* the items n+1 .. n+m in order
Items(n, m) == [i \in 1..m |-> n + i]

\* the counter of a new Flusher after n calls of queueIndex.Inc()
RECURSIVE IncN(_)
IncN(n) == IF n = 0 THEN U32(0) ELSE Inc(IncN(n - 1))

\* counter and queues of a new Flusher after n Push calls made one after the
\* other, pushing the items 1..n: the i-th call appends item i to the queue
\* queueIndex.Inc() & queueMask (Flusher.Push, Queue.Push)
Pushed(n) ==
  [queueIndex |-> IncN(n),
   queues |-> [k \in Shards |->
                 SelectSeq(Items(0, n), LAMBDA i : AndMask(IncN(i), queueMask) = k)]]

(* ------------------------------- Init ---------------------------------- *)
\* NewQueue: a queue with no values
NewQueue == <<>>

\* NewQueues(size): result[i] = NewQueue() for i = 0 .. size-1
NewQueues(size) == [k \in 0..(size - 1) |-> NewQueue]

\* NewFlusher: enabled, run goroutine started and waiting in select, no
\* queue mutex held
FlusherStart ==
  /\ enabled = TRUE
  /\ ctxDone = FALSE
  /\ done = FALSE
  /\ runPc = "select"
  /\ final = FALSE
  /\ flushK = 0
  /\ length = 0
  /\ rows = <<>>
  /\ ticks = 0
  /\ pc = [p \in Producers |-> "idle"]
  /\ item = [p \in Producers |-> 0]
  /\ index = [p \in Producers |-> 0]
  /\ shutPc = "idle"
  /\ shutReturns = 0
  /\ drained = [k \in Shards |-> <<>>]
  /\ inserts = <<>>
  /\ rejected = {}
  /\ late = {}
  /\ clears = [k \in Shards |-> 0]
  /\ locked = {}

\* the request value before any Server.Push call
NoRequest == [property |-> "", id |-> 0, section |-> 0]
NoCall == [req |-> NoRequest, idErr |-> FALSE, err |-> "nil"]

\* stats.PushRequest: Property string, Id and Section unsigned
Requests == [property : {"", "news", "olds"}, id : 0..MaxField, section : 0..MaxField]

(* Strings that the code takes apart are sequences of characters. *)
\* strings.Index(s, sep): position of the first sep in s, 0 when there is none
\* (positions count from 1)
Index(s, sep) ==
  LET at == {i \in 1..(Len(s) - Len(sep) + 1) : SubSeq(s, i, i + Len(sep) - 1) = sep}
  IN IF at = {} THEN 0 ELSE CHOOSE i \in at : \A j \in at : i <= j

\* strings.SplitN(s, sep, 2)[0], sep not empty: s up to its first sep, the
\* whole of s when sep does not occur
SplitN2First(s, sep) ==
  IF Index(s, sep) = 0 THEN s ELSE SubSeq(s, 1, Index(s, sep) - 1)

\* r.Context(): the context net/http cancels when the client goes away
RequestCtx == [kind |-> "request"]

\* type ipAddressCtxKey struct{}
ipAddressCtxKey == "ipAddressCtxKey"

\* context.WithValue(parent, key, val)
WithValue(parent, key, val) ==
  [kind |-> "value", parent |-> parent, key |-> key, val |-> val]

\* SetIPToContext(ctx, ip)
SetIPToContext(ctx, ip) == WithValue(ctx, ipAddressCtxKey, ip)

\* ContextWithoutCancel(ctx) that returns ctx itself
ContextKeepCancel(ctx) == ctx

\* ContextWithoutCancel(ctx): ctxWithoutCancel{ctx}
ContextWithoutCancel(ctx) == [kind |-> "withoutCancel", parent |-> ctx]

\* ctx.Done(): nil for ctxWithoutCancel, whatever is below it; the embedded
\* parent's for a value context; the request's channel, closed once the
\* request is cancelled
RECURSIVE Done(_)
Done(ctx) ==
  IF ctx.kind = "withoutCancel" THEN "nil"
  ELSE IF ctx.kind = "value" THEN Done(ctx.parent)
  ELSE IF httpCancelled THEN "closed" ELSE "open"

\* ctx.Err()
RECURSIVE Err(_)
Err(ctx) ==
  IF ctx.kind = "withoutCancel" THEN "nil"
  ELSE IF ctx.kind = "value" THEN Err(ctx.parent)
  ELSE IF httpCancelled THEN "context canceled" ELSE "nil"

\* ctx.Value(key): ctxWithoutCancel has no Value method of its own, the
\* embedded Context answers; found is false for a nil result
RECURSIVE Value(_, _)
Value(ctx, key) ==
  IF ctx.kind = "withoutCancel" THEN Value(ctx.parent, key)
  ELSE IF ctx.kind = "value"
         THEN IF ctx.key = key THEN [found |-> TRUE, val |-> ctx.val]
              ELSE Value(ctx.parent, key)
  ELSE [found |-> FALSE, val |-> <<>>]

\* GetIPFromContext(ctx): the string stored under ipAddressCtxKey{}, or ""
GetIPFromContext(ctx) ==
  IF Value(ctx, ipAddressCtxKey).found THEN Value(ctx, ipAddressCtxKey).val ELSE <<>>

\* the ip WrapWithIP computes for request r; r.Header.Get gives "" for a
\* header that is absent
ClientIP(r) ==
  IF r.xff # <<>> THEN SplitN2First(r.xff, <<",", " ">>)
  ELSE IF r.xri # <<>> THEN SplitN2First(r.xri, <<",", " ">>)
  ELSE SplitN2First(r.remoteAddr, <<":">>)

\* no row has been built
NoRow == [built |-> FALSE, RemoteIP |-> <<>>]

\* header values and remote addresses tried
HeaderValues ==
  { <<>>, <<"a">>, <<"a", ",", " ", "b">>, <<"a", ",", "b">> }

RemoteAddrs ==
  { <<"c", ":", "8">>, <<"[", ":", ":", "1", "]", ":", "8">>, <<"c">> }

HttpRequests ==
  [xff : HeaderValues, xri : HeaderValues \ {<<"a", ",", "b">>},
   remoteAddr : RemoteAddrs, wrapped : BOOLEAN]

\* no HTTP request is being served
HttpIdle ==
  /\ httpReq = [xff |-> <<>>, xri |-> <<>>, remoteAddr |-> <<>>, wrapped |-> FALSE]
  /\ httpPc = "returned"
  /\ httpCtx = RequestCtx
  /\ httpCancelled = FALSE
  /\ httpBy = 1
  /\ httpRow = NoRow

\* producers call Flusher.Push directly, no Server.Push call is made
ServerIdle ==
  /\ HttpIdle
  /\ pushFrom = "idle"
  /\ srvCalls = 0
  /\ srvLast = NoCall

\* the goroutines that call Clear concurrently
Callers == {1, 2}

\* no goroutine is inside Clear, none has called it
ClearIdle ==
  /\ clearPc = [c \in Callers |-> "idle"]
  /\ clearLength = [c \in Callers |-> 0]
  /\ clearReturned = [c \in Callers |-> <<>>]
  /\ clearCalls = [c \in Callers |-> 0]

\* no Queue or Pool is in use outside the Flusher
PoolIdle ==
  /\ ClearIdle
  /\ poolKind = "Queue"
  /\ poolValues = NewQueue
  /\ poolPc = "idle"
  /\ poolLength = 0
  /\ poolSince = <<>>
  /\ poolLast = [op |-> "New", err |-> "nil", n |-> 0, result |-> <<>>]
  /\ poolOps = 0

\* ConnectWithRetry is about to be called with options o
ConnectCalled(o) ==
  /\ connIn = o
  /\ connOpts = o
  /\ connCtx = FALSE
  /\ connPc = "start"
  /\ connGo = "none"
  /\ connTry = 0
  /\ connDb = "nil"
  /\ connErr = "nil"
  /\ connCh = <<>>
  /\ connClosed = FALSE
  /\ connRet = [db |-> "nil", err |-> "nil"]
  /\ connNow = 0
  /\ connWake = 0
  /\ connAttempts = 0
  /\ connFailures = 0

\* ConnectWithRetry has returned a handle at once: no connection is pending
ConnIdle ==
  /\ connIn = [Retries |-> 0, RetryDelay |-> 0, ConnectTimeout |-> 0]
  /\ connOpts = connIn
  /\ connCtx = FALSE
  /\ connPc = "returned"
  /\ connGo = "exited"
  /\ connTry = 0
  /\ connDb = "handle"
  /\ connErr = "nil"
  /\ connCh = <<>>
  /\ connClosed = TRUE
  /\ connRet = [db |-> "handle", err |-> "nil"]
  /\ connNow = 0
  /\ connWake = 0
  /\ connAttempts = 0
  /\ connFailures = 0

\* migration{} with Project and Filename set: StatementIndex 0, Status ""
NoStatus == [index |-> 0, status |-> ""]

\* Run is about to be called for a project with files fs, on an empty database
MigrateCalled(fs) ==
  /\ migFS = fs
  /\ migTable = [f \in FileNames |-> [present |-> FALSE, index |-> 0, status |-> ""]]
  /\ migPc = "idle"
  /\ migRun = 0
  /\ migFile = 0
  /\ migStatus = NoStatus
  /\ migIdx = 0
  /\ migErr = "nil"
  /\ migResults = <<>>
  /\ migLog = <<>>

\* no migration is run: a project with migrations.sql alone
MigIdle ==
  MigrateCalled([f \in FileNames |-> IF f \in {MainFile, DownFile} THEN 1 ELSE 0])

\* the code apart from the stats server is not in use
LibIdle == PoolIdle /\ ConnIdle /\ MigIdle

InitCommon ==
  /\ FlusherStart
  /\ ServerIdle
  /\ LibIdle

Init ==
  /\ InitCommon
  /\ queueIndex = U32(0)
  /\ queues = NewQueues(queueSize)
  /\ appended = [k \in Shards |-> <<>>]
  /\ accepted = {}
  /\ calls = 0
  /\ pushLimit = MaxPush
  /\ tickLimit = MaxTicks

(* --------------------------- Flusher.Push ------------------------------ *)
\* if job.enabled.Load() { ... } : the call and the load of enabled
PushLoad(p) ==
  /\ pc[p] = pushFrom
  /\ calls < pushLimit
  /\ enabled
  /\ calls' = calls + 1
  /\ item' = [item EXCEPT ![p] = calls + 1]
  /\ pc' = [pc EXCEPT ![p] = "inc"]
  /\ late' = IF shutReturns > 0 THEN late \cup {calls + 1} ELSE late
  /\ UNCHANGED <<enabled, queueIndex, queues, ctxDone, done, index, pushLimit, tickLimit, locked, otherVars>>
  /\ UNCHANGED <<runVars, shutVars, appended, drained, inserts, accepted, rejected, clears>>

\* PushDisabled with the counter incremented before enabled is looked at
PushDisabledInc(p) ==
  /\ pc[p] = pushFrom
  /\ calls < pushLimit
  /\ ~enabled
  /\ calls' = calls + 1
  /\ queueIndex' = Inc(queueIndex)
  /\ rejected' = rejected \cup {calls + 1}
  /\ late' = IF shutReturns > 0 THEN late \cup {calls + 1} ELSE late
  /\ UNCHANGED <<enabled, queues, ctxDone, done, pc, item, index, pushLimit, tickLimit, locked, otherVars>>
  /\ UNCHANGED <<runVars, shutVars, appended, drained, inserts, accepted, clears>>

\* return errFlusherDisabled
PushDisabled(p) ==
  /\ pc[p] = pushFrom
  /\ calls < pushLimit
  /\ ~enabled
  /\ calls' = calls + 1
  /\ rejected' = rejected \cup {calls + 1}
  /\ late' = IF shutReturns > 0 THEN late \cup {calls + 1} ELSE late
  /\ pc' = [pc EXCEPT ![p] = "idle"]
  /\ UNCHANGED <<enabled, queueIndex, queues, ctxDone, done, item, index,
                 pushLimit, tickLimit, locked, otherVars>>
  /\ UNCHANGED <<runVars, shutVars, appended, drained, inserts, accepted, clears>>

\* PushInc with the mask computed as queueSize - 2
PushIncBadMask(p) ==
  /\ pc[p] = "inc"
  /\ queueIndex' = Inc(queueIndex)
  /\ index' = [index EXCEPT ![p] = AndMask(Inc(queueIndex), queueSize - 2)]
  /\ pc' = [pc EXCEPT ![p] = "push"]
  /\ UNCHANGED <<enabled, queues, ctxDone, done, item, calls, pushLimit, tickLimit, locked, otherVars>>
  /\ UNCHANGED <<runVars, shutVars, histVars>>

\* PushInc with the counter used before it is incremented:
\* index := (job.queueIndex.Inc() - 1) & job.queueMask
PushIncAfterUse(p) ==
  /\ pc[p] = "inc"
  /\ queueIndex' = Inc(queueIndex)
  /\ index' = [index EXCEPT ![p] = AndMask(queueIndex, queueMask)]
  /\ pc' = [pc EXCEPT ![p] = "push"]
  /\ UNCHANGED <<enabled, queues, ctxDone, done, item, calls, pushLimit, tickLimit, locked, otherVars>>
  /\ UNCHANGED <<runVars, shutVars, histVars>>

\* index := job.queueIndex.Inc() & job.queueMask
PushInc(p) ==
  /\ pc[p] = "inc"
  /\ queueIndex' = Inc(queueIndex)
  /\ index' = [index EXCEPT ![p] = AndMask(Inc(queueIndex), queueMask)]
  /\ pc' = [pc EXCEPT ![p] = "push"]
  /\ UNCHANGED <<enabled, queues, ctxDone, done, item, calls, pushLimit, tickLimit, locked, otherVars>>
  /\ UNCHANGED <<runVars, shutVars, histVars>>

\* QueuePush that stores the item over the queue's contents instead of appending
QueuePushOverwrite(p) ==
  /\ pc[p] = "push"
  /\ index[p] \notin locked
  /\ queues' = [queues EXCEPT ![index[p]] = <<item[p]>>]
  /\ appended' = [appended EXCEPT ![index[p]] = Append(@, item[p])]
  /\ accepted' = accepted \cup {item[p]}
  /\ pc' = [pc EXCEPT ![p] = "idle"]
  /\ item' = [item EXCEPT ![p] = 0]
  /\ index' = [index EXCEPT ![p] = 0]
  /\ UNCHANGED <<enabled, queueIndex, ctxDone, done, calls, pushLimit, tickLimit, locked, otherVars>>
  /\ UNCHANGED <<runVars, shutVars, drained, inserts, rejected, late, clears>>

\* QueuePush that puts the item in front: p.values = append([]T{item}, p.values...)
QueuePushFront(p) ==
  /\ pc[p] = "push"
  /\ index[p] \notin locked
  /\ queues' = [queues EXCEPT ![index[p]] = <<item[p]>> \o @]
  /\ appended' = [appended EXCEPT ![index[p]] = Append(@, item[p])]
  /\ accepted' = accepted \cup {item[p]}
  /\ pc' = [pc EXCEPT ![p] = "idle"]
  /\ item' = [item EXCEPT ![p] = 0]
  /\ index' = [index EXCEPT ![p] = 0]
  /\ UNCHANGED <<enabled, queueIndex, ctxDone, done, calls, pushLimit, tickLimit, locked, otherVars>>
  /\ UNCHANGED <<runVars, shutVars, drained, inserts, rejected, late, clears>>

\* QueuePush on queues that share one values slice: every queue gets the item
QueuePushShared(p) ==
  /\ pc[p] = "push"
  /\ index[p] \notin locked
  /\ queues' = [k \in DOMAIN queues |-> Append(queues[k], item[p])]
  /\ appended' = [appended EXCEPT ![index[p]] = Append(@, item[p])]
  /\ accepted' = accepted \cup {item[p]}
  /\ pc' = [pc EXCEPT ![p] = "idle"]
  /\ item' = [item EXCEPT ![p] = 0]
  /\ index' = [index EXCEPT ![p] = 0]
  /\ UNCHANGED <<enabled, queueIndex, ctxDone, done, calls, pushLimit, tickLimit, locked, otherVars>>
  /\ UNCHANGED <<runVars, shutVars, drained, inserts, rejected, late, clears>>

\* QueuePush followed by an insert of the row by the caller itself
\* (svc.db.NamedExecContext in Server.Push), before Push returns
QueuePushAndInsert(p) ==
  /\ pc[p] = "push"
  /\ index[p] \notin locked
  /\ queues' = [queues EXCEPT ![index[p]] = Append(@, item[p])]
  /\ appended' = [appended EXCEPT ![index[p]] = Append(@, item[p])]
  /\ accepted' = accepted \cup {item[p]}
  /\ inserts' = Append(inserts, [queue |-> index[p], rows |-> <<item[p]>>, ok |-> TRUE])
  /\ pc' = [pc EXCEPT ![p] = "idle"]
  /\ item' = [item EXCEPT ![p] = 0]
  /\ index' = [index EXCEPT ![p] = 0]
  /\ UNCHANGED <<enabled, queueIndex, ctxDone, done, calls, pushLimit, tickLimit, locked, otherVars>>
  /\ UNCHANGED <<runVars, shutVars, drained, rejected, late, clears>>

\* return job.queues[index].Push(item) : Queue.Push under the queue's lock
QueuePush(p) ==
  /\ pc[p] = "push"
  /\ index[p] \notin locked
  /\ queues' = [queues EXCEPT ![index[p]] = Append(@, item[p])]
  /\ appended' = [appended EXCEPT ![index[p]] = Append(@, item[p])]
  /\ accepted' = accepted \cup {item[p]}
  /\ pc' = [pc EXCEPT ![p] = "idle"]
  /\ item' = [item EXCEPT ![p] = 0]
  /\ index' = [index EXCEPT ![p] = 0]
  /\ UNCHANGED <<enabled, queueIndex, ctxDone, done, calls, pushLimit, tickLimit, locked, otherVars>>
  /\ UNCHANGED <<runVars, shutVars, drained, inserts, rejected, late, clears>>

(* ---------------------------- Server.Push ------------------------------ *)
\* validate without the check of r.Section
ValidateNoSection(r) ==
  IF r.property = "" THEN "missing property"
  ELSE IF r.property # "news" THEN "invalid property"
  ELSE IF r.id < 1 THEN "missing id"
  ELSE "nil"

\* validate := func() error { ... } of Server.Push
Validate(r) ==
  IF r.property = "" THEN "missing property"
  ELSE IF r.property # "news" THEN "invalid property"
  ELSE IF r.id < 1 THEN "missing id"
  ELSE IF r.section < 1 THEN "missing section"
  ELSE "nil"

\* Server.Push up to the call of svc.flusher.Push(row): validate(), then
\* sonyflake.NextID(), whose outcome is an input; on an error the call returns
\* it, otherwise the row is built and the producer goes on to Flusher.Push
ServerPushRow(p) ==
  /\ pushFrom = "row"
  /\ pc[p] = "idle"
  /\ srvCalls < pushLimit
  /\ \E r \in Requests, nextIdFails \in BOOLEAN :
       LET verr == Validate(r)
           idErr == verr = "nil" /\ nextIdFails
           err == IF verr # "nil" THEN verr
                  ELSE IF idErr THEN "sonyflake error" ELSE "nil"
       IN /\ srvLast' = [req |-> r, idErr |-> idErr, err |-> err]
          /\ pc' = [pc EXCEPT ![p] = IF err = "nil" THEN "row" ELSE "idle"]
  /\ srvCalls' = srvCalls + 1
  /\ UNCHANGED <<enabled, queueIndex, queues, ctxDone, done, item, index, calls,
                 pushLimit, tickLimit, locked, pushFrom, libVars>>
  /\ UNCHANGED <<runVars, shutVars, histVars>>

\* Server.Push called directly, outside an HTTP request
ServerPush(p) ==
  /\ ServerPushRow(p)
  /\ UNCHANGED httpVars

(* --------------------------- Flusher.run ------------------------------- *)
\* RunTick without the call of job.flush(): the tick is consumed and the loop
\* continues
RunTickSkipFlush ==
  /\ runPc = "select"
  /\ ticks < tickLimit
  /\ ticks' = ticks + 1
  /\ UNCHANGED <<enabled, queueIndex, queues, ctxDone, done, runPc, final, flushK, length, rows, pushLimit, tickLimit, locked, otherVars>>
  /\ UNCHANGED <<pushVars, shutVars, histVars>>

\* RunTick with flush started in a goroutine of its own (go job.flush()): the
\* tick is taken whether or not a flush is in progress
RunTickAnytime ==
  /\ runPc \in {"select", "clearLength", "clearSplit", "rows"}
  /\ ticks < tickLimit
  /\ ticks' = ticks + 1
  /\ final' = FALSE
  /\ flushK' = 0
  /\ runPc' = "clearLength"
  /\ UNCHANGED <<enabled, queueIndex, queues, ctxDone, done, length, rows, pushLimit, tickLimit, locked, otherVars>>
  /\ UNCHANGED <<pushVars, shutVars, histVars>>

\* case <-ticker.C: job.flush(); continue
RunTick ==
  /\ runPc = "select"
  /\ ticks < tickLimit
  /\ ticks' = ticks + 1
  /\ final' = FALSE
  /\ flushK' = 0
  /\ runPc' = "clearLength"
  /\ UNCHANGED <<enabled, queueIndex, queues, ctxDone, done, length, rows, pushLimit, tickLimit, locked, otherVars>>
  /\ UNCHANGED <<pushVars, shutVars, histVars>>

\* RunCancel with job.finish() called before the last flush
RunCancelFinishFirst ==
  /\ runPc = "select"
  /\ ctxDone
  /\ enabled' = FALSE
  /\ done' = TRUE
  /\ final' = TRUE
  /\ flushK' = 0
  /\ runPc' = "clearLength"
  /\ UNCHANGED <<queueIndex, queues, ctxDone, length, rows, ticks, pushLimit, tickLimit, locked, otherVars>>
  /\ UNCHANGED <<pushVars, shutVars, histVars>>

\* RunCancel followed by `continue`: the flush is an ordinary one and the loop
\* goes back to select
RunCancelContinue ==
  /\ runPc = "select"
  /\ ctxDone
  /\ enabled' = FALSE
  /\ final' = FALSE
  /\ flushK' = 0
  /\ runPc' = "clearLength"
  /\ UNCHANGED <<queueIndex, queues, ctxDone, done, length, rows, ticks, pushLimit, tickLimit, locked, otherVars>>
  /\ UNCHANGED <<pushVars, shutVars, histVars>>

\* RunCancel without job.enabled.Store(false)
RunCancelKeepEnabled ==
  /\ runPc = "select"
  /\ ctxDone
  /\ final' = TRUE
  /\ flushK' = 0
  /\ runPc' = "clearLength"
  /\ UNCHANGED <<enabled, queueIndex, queues, ctxDone, done, length, rows, ticks, pushLimit, tickLimit, locked, otherVars>>
  /\ UNCHANGED <<pushVars, shutVars, histVars>>

\* case <-ctx.Done(): job.enabled.Store(false); job.flush()
RunCancel ==
  /\ runPc = "select"
  /\ ctxDone
  /\ enabled' = FALSE
  /\ final' = TRUE
  /\ flushK' = 0
  /\ runPc' = "clearLength"
  /\ UNCHANGED <<queueIndex, queues, ctxDone, done, length, rows, ticks, pushLimit, tickLimit, locked, otherVars>>
  /\ UNCHANGED <<pushVars, shutVars, histVars>>

\* rows := queue.Clear() is called; Queue.Clear, first half:
\* length := p.Length() (under the read lock)
ClearLength ==
  /\ runPc = "clearLength"
  /\ flushK \notin locked
  /\ length' = Len(queues[flushK])
  /\ runPc' = "clearSplit"
  /\ clears' = [clears EXCEPT ![flushK] = @ + 1]
  /\ UNCHANGED <<enabled, queueIndex, queues, ctxDone, done, final, flushK, rows,
                 ticks, pushLimit, tickLimit, locked, otherVars>>
  /\ UNCHANGED <<pushVars, shutVars, appended, drained, inserts, accepted, rejected, late>>

\* ClearSplit with the queue truncated to empty: p.values = p.values[:0]
ClearSplitTruncate ==
  /\ runPc = "clearSplit"
  /\ flushK \notin locked
  /\ rows' = Slice(queues[flushK], 0, length)
  /\ queues' = [queues EXCEPT ![flushK] = <<>>]
  /\ drained' = [drained EXCEPT ![flushK] = @ \o Slice(queues[flushK], 0, length)]
  /\ runPc' = "rows"
  /\ UNCHANGED <<enabled, queueIndex, ctxDone, done, final, flushK, length, ticks,
                 pushLimit, tickLimit, locked, otherVars>>
  /\ UNCHANGED <<pushVars, shutVars, appended, inserts, accepted, rejected, late, clears>>

\* ClearSplit that returns the first `length` values and keeps them queued
ClearSplitCopy ==
  /\ runPc = "clearSplit"
  /\ flushK \notin locked
  /\ rows' = Slice(queues[flushK], 0, length)
  /\ drained' = [drained EXCEPT ![flushK] = @ \o Slice(queues[flushK], 0, length)]
  /\ runPc' = "rows"
  /\ UNCHANGED <<enabled, queueIndex, queues, ctxDone, done, final, flushK, length,
                 ticks, pushLimit, tickLimit, locked, otherVars>>
  /\ UNCHANGED <<pushVars, shutVars, appended, inserts, accepted, rejected, late, clears>>

\* ClearSplit without the deferred p.Unlock(): the mutex stays held
ClearSplitHoldLock ==
  /\ runPc = "clearSplit"
  /\ flushK \notin locked
  /\ rows' = Slice(queues[flushK], 0, length)
  /\ queues' = [queues EXCEPT ![flushK] = Slice(@, length, Len(@))]
  /\ drained' = [drained EXCEPT ![flushK] = @ \o Slice(queues[flushK], 0, length)]
  /\ runPc' = "rows"
  /\ locked' = locked \cup {flushK}
  /\ UNCHANGED <<enabled, queueIndex, ctxDone, done, final, flushK, length, ticks,
                 pushLimit, tickLimit, otherVars>>
  /\ UNCHANGED <<pushVars, shutVars, appended, inserts, accepted, rejected, late, clears>>

\* Queue.Clear, second half: p.Lock(); defer p.Unlock();
\* result, p.values = p.values[:length], p.values[length:]
\* The mutex is taken and, on return, released within the step.
ClearSplit ==
  /\ runPc = "clearSplit"
  /\ flushK \notin locked
  /\ rows' = Slice(queues[flushK], 0, length)
  /\ queues' = [queues EXCEPT ![flushK] = Slice(@, length, Len(@))]
  /\ drained' = [drained EXCEPT ![flushK] = @ \o Slice(queues[flushK], 0, length)]
  /\ runPc' = "rows"
  /\ UNCHANGED <<enabled, queueIndex, ctxDone, done, final, flushK, length, ticks,
                 pushLimit, tickLimit, locked, otherVars>>
  /\ UNCHANGED <<pushVars, shutVars, appended, inserts, accepted, rejected, late, clears>>

\* FlushInsert that returns from flush when NamedExec fails
FlushInsertAbort ==
  /\ runPc = "rows"
  /\ Len(rows) > 0
  /\ LET size == Min(batchInsertSize, Len(rows)) IN
       \E ok \in BOOLEAN :
         /\ inserts' = Append(inserts,
                         [queue |-> flushK, rows |-> Slice(rows, 0, size), ok |-> ok])
         /\ rows' = IF ok THEN Slice(rows, size, Len(rows)) ELSE <<>>
         /\ flushK' = IF ok THEN flushK ELSE queueSize - 1
  /\ UNCHANGED <<enabled, queueIndex, queues, ctxDone, done, runPc, final,
                 length, ticks, pushLimit, tickLimit, locked, otherVars>>
  /\ UNCHANGED <<pushVars, shutVars, appended, drained, accepted, rejected, late, clears>>

\* FlushInsert with the next chunk starting one row early
FlushInsertOffByOne ==
  /\ runPc = "rows"
  /\ Len(rows) > 0
  /\ LET size == Min(batchInsertSize, Len(rows)) IN
       /\ \E ok \in BOOLEAN :
            inserts' = Append(inserts,
                         [queue |-> flushK, rows |-> Slice(rows, 0, size), ok |-> ok])
       /\ rows' = IF size < Len(rows) THEN Slice(rows, size - 1, Len(rows)) ELSE <<>>
  /\ UNCHANGED <<enabled, queueIndex, queues, ctxDone, done, runPc, final, flushK,
                 length, ticks, pushLimit, tickLimit, locked, otherVars>>
  /\ UNCHANGED <<pushVars, shutVars, appended, drained, accepted, rejected, late, clears>>

\* FlushInsert that tries a failed chunk again: rows is cut only on success
FlushInsertRetry ==
  /\ runPc = "rows"
  /\ Len(rows) > 0
  /\ LET size == Min(batchInsertSize, Len(rows)) IN
       \E ok \in BOOLEAN :
         /\ inserts' = Append(inserts,
                         [queue |-> flushK, rows |-> Slice(rows, 0, size), ok |-> ok])
         /\ rows' = IF ok THEN Slice(rows, size, Len(rows)) ELSE rows
  /\ UNCHANGED <<enabled, queueIndex, queues, ctxDone, done, runPc, final, flushK,
                 length, ticks, pushLimit, tickLimit, locked, otherVars>>
  /\ UNCHANGED <<pushVars, shutVars, appended, drained, accepted, rejected, late, clears>>

\* one iteration of `for len(rows) > 0`: NamedExec(query, rows[:batchInsertSize]),
\* an error is logged only; rows = rows[batchInsertSize:]
FlushInsert ==
  /\ runPc = "rows"
  /\ Len(rows) > 0
  /\ LET size == Min(batchInsertSize, Len(rows)) IN
       /\ \E ok \in BOOLEAN :
            inserts' = Append(inserts,
                         [queue |-> flushK, rows |-> Slice(rows, 0, size), ok |-> ok])
       /\ rows' = Slice(rows, size, Len(rows))
  /\ UNCHANGED <<enabled, queueIndex, queues, ctxDone, done, runPc, final, flushK,
                 length, ticks, pushLimit, tickLimit, locked, otherVars>>
  /\ UNCHANGED <<pushVars, shutVars, appended, drained, accepted, rejected, late, clears>>

\* FlushNext that leaves the loop over the queues when a queue had no rows
\* (`if len(rows) == 0 { break }`)
FlushNextBreakOnEmpty ==
  /\ runPc = "rows"
  /\ Len(rows) = 0
  /\ IF flushK + 1 < queueSize /\ length > 0
       THEN /\ flushK' = flushK + 1
            /\ runPc' = "clearLength"
       ELSE /\ flushK' = flushK
            /\ runPc' = IF final THEN "finish" ELSE "select"
  /\ UNCHANGED <<enabled, queueIndex, queues, ctxDone, done, final, length, rows,
                 ticks, pushLimit, tickLimit, locked, otherVars>>
  /\ UNCHANGED <<pushVars, shutVars, histVars>>

\* len(rows) = 0: next queue of `for k, queue := range job.queues`, or flush returns
FlushNext ==
  /\ runPc = "rows"
  /\ Len(rows) = 0
  /\ IF flushK + 1 < queueSize
       THEN /\ flushK' = flushK + 1
            /\ runPc' = "clearLength"
       ELSE /\ flushK' = flushK
            /\ runPc' = IF final THEN "finish" ELSE "select"
  /\ UNCHANGED <<enabled, queueIndex, queues, ctxDone, done, final, length, rows,
                 ticks, pushLimit, tickLimit, locked, otherVars>>
  /\ UNCHANGED <<pushVars, shutVars, histVars>>

\* RunFinish with the loop going round again instead of `break`
RunFinishNoBreak ==
  /\ runPc = "finish"
  /\ done' = TRUE
  /\ runPc' = "select"
  /\ UNCHANGED <<enabled, queueIndex, queues, ctxDone, final, flushK, length, rows,
                 ticks, pushLimit, tickLimit, locked, otherVars>>
  /\ UNCHANGED <<pushVars, shutVars, histVars>>

\* break; the deferred job.finish() closes Flusher.Done(); run returns
RunFinish ==
  /\ runPc = "finish"
  /\ done' = TRUE
  /\ runPc' = "exited"
  /\ UNCHANGED <<enabled, queueIndex, queues, ctxDone, final, flushK, length, rows,
                 ticks, pushLimit, tickLimit, locked, otherVars>>
  /\ UNCHANGED <<pushVars, shutVars, histVars>>

(* ------------------------ environment, Shutdown ------------------------ *)
\* Cancel on a Flusher whose own context is derived from the parent context
\* (context.WithCancel(ctx)): cancelling the parent closes Flusher.Done()
CancelClosesDone ==
  /\ ~ctxDone
  /\ ctxDone' = TRUE
  /\ done' = TRUE
  /\ UNCHANGED <<enabled, queueIndex, queues, pushLimit, tickLimit, locked, otherVars>>
  /\ UNCHANGED <<runVars, pushVars, shutVars, histVars>>

\* the process-level context is cancelled (SIGTERM)
Cancel ==
  /\ ~ctxDone
  /\ ctxDone' = TRUE
  /\ UNCHANGED <<enabled, queueIndex, queues, done, pushLimit, tickLimit, locked, otherVars>>
  /\ UNCHANGED <<runVars, pushVars, shutVars, histVars>>

\* Server.Shutdown is called: it starts to wait on <-s.flusher.Done()
ShutdownCall ==
  /\ shutPc = "idle"
  /\ shutReturns < MaxShutdown
  /\ shutPc' = "waiting"
  /\ UNCHANGED <<enabled, queueIndex, queues, ctxDone, done, shutReturns, pushLimit, tickLimit, locked, otherVars>>
  /\ UNCHANGED <<runVars, pushVars, histVars>>

\* ShutdownReturn on a completion signal that is sent once instead of closed
ShutdownReturnOnce ==
  /\ shutPc = "waiting"
  /\ done
  /\ done' = FALSE
  /\ shutPc' = "idle"
  /\ shutReturns' = shutReturns + 1
  /\ UNCHANGED <<enabled, queueIndex, queues, ctxDone, pushLimit, tickLimit, locked, otherVars>>
  /\ UNCHANGED <<runVars, pushVars, histVars>>

\* <-s.flusher.Done() receives: Shutdown returns
ShutdownReturn ==
  /\ shutPc = "waiting"
  /\ done
  /\ shutPc' = "idle"
  /\ shutReturns' = shutReturns + 1
  /\ UNCHANGED <<enabled, queueIndex, queues, ctxDone, done, pushLimit, tickLimit, locked, otherVars>>
  /\ UNCHANGED <<runVars, pushVars, histVars>>

(* --------------------------- specifications ---------------------------- *)
Next ==
  \/ \E p \in Producers : PushLoad(p)
  \/ \E p \in Producers : PushDisabled(p)
  \/ \E p \in Producers : PushInc(p)
  \/ \E p \in Producers : QueuePush(p)
  \/ RunTick
  \/ RunCancel
  \/ ClearLength
  \/ ClearSplit
  \/ FlushInsert
  \/ FlushNext
  \/ RunFinish
  \/ Cancel
  \/ ShutdownCall
  \/ ShutdownReturn

Spec == Init /\ [][Next]_vars

\* the run goroutine is scheduled and NamedExec returns; select takes the
\* ctx.Done() case when it is ready again and again; a receiver on a closed
\* channel is woken
RunStep == ClearLength \/ ClearSplit \/ FlushInsert \/ FlushNext \/ RunFinish

InitFair ==
  /\ InitCommon
  /\ queueIndex = U32(0)
  /\ queues = NewQueues(queueSize)
  /\ appended = [k \in Shards |-> <<>>]
  /\ accepted = {}
  /\ calls = 0
  /\ pushLimit = FairPush
  /\ tickLimit = FairTicks

FairSpec ==
  /\ InitFair /\ [][Next]_vars
  /\ WF_vars(RunStep)
  /\ SF_vars(RunCancel)
  /\ WF_vars(ShutdownReturn)

\* Producers only: the flusher is Running and the run goroutine stays in select
\* (no tick, no cancellation), so no queue is drained.
\* It starts after n Push calls made one after the other on a new Flusher.
InitPush ==
  /\ InitCommon
  /\ \E n \in 0..MaxPushed :
       /\ queueIndex = Pushed(n).queueIndex
       /\ queues = Pushed(n).queues
       /\ appended = Pushed(n).queues
       /\ accepted = 1..n
       /\ calls = n
       /\ pushLimit = n + MaxPush
       /\ tickLimit = 0

NextPush ==
  \/ \E p \in Producers : PushLoad(p)
  \/ \E p \in Producers : PushInc(p)
  \/ \E p \in Producers : QueuePush(p)

SpecPush == InitPush /\ [][NextPush]_vars

\* values of the counter of a Flusher that has been running for a long time:
\* next to 0, to 2^16, to 2^31 and to 2^32
CounterStarts ==
  {[hi |-> h, lo |-> l] : h \in {0, Half \div 2 - 1, Half - 1},
                          l \in {0, Half - 3, Half - 2, Half - 1}}

\* Producers only, on a Flusher whose counter stands at one of CounterStarts
\* and whose queues have all been flushed; the histories start here
InitWrap ==
  /\ InitCommon
  /\ queueIndex \in CounterStarts
  /\ queues = NewQueues(queueSize)
  /\ appended = [k \in Shards |-> <<>>]
  /\ accepted = {}
  /\ calls = 0
  /\ pushLimit = MaxPush
  /\ tickLimit = 0

SpecWrap == InitWrap /\ [][NextPush]_vars

\* A Flusher that has been running for a while: each shard of LoadedShards
\* holds load[k] items whose Push has returned nil, the other shards are
\* empty, the run goroutine waits in select and the counter stands just before
\* the first loaded shard.  (Push calls that stopped between Inc and
\* Queue.Push while the other shards were flushed leave any such lengths.)
Preload(load) ==
  [k \in Shards |->
     IF k \in LoadedShards
       THEN Items(SumLoad(load, {j \in LoadedShards : j < k}), load[k])
       ELSE <<>>]

InitLoaded(sizes, more) ==
  /\ InitCommon
  /\ \E load \in [LoadedShards -> sizes] :
       LET n == SumLoad(load, LoadedShards) IN
         /\ queues = Preload(load)
         /\ appended = Preload(load)
         /\ accepted = 1..n
         /\ calls = n
         /\ pushLimit = n + more
         /\ tickLimit = MaxTicks
         /\ queueIndex = U32(queueSize * n + 1)

\* Producers and timer-driven flushes on shards that already hold items
InitDrain == InitLoaded(DrainSizes, DrainPush)

NextDrain ==
  \/ \E p \in Producers : PushLoad(p)
  \/ \E p \in Producers : PushInc(p)
  \/ \E p \in Producers : QueuePush(p)
  \/ RunTick
  \/ ClearLength
  \/ ClearSplit
  \/ FlushInsert
  \/ FlushNext

SpecDrain == InitDrain /\ [][NextDrain]_vars

\* A new Flusher with producers and a timer that fires (time.NewTicker) as long
\* as the model lets it, a run goroutine that is scheduled, and NamedExec calls
\* that return; the context is never cancelled and nothing is assumed about
\* the producers
InitTimer ==
  /\ InitCommon
  /\ queueIndex = U32(0)
  /\ queues = NewQueues(queueSize)
  /\ appended = [k \in Shards |-> <<>>]
  /\ accepted = {}
  /\ calls = 0
  /\ pushLimit = FairPush
  /\ tickLimit = MaxTicks

SpecTimer ==
  /\ InitTimer /\ [][NextDrain]_vars
  /\ WF_vars(RunTick)
  /\ WF_vars(RunStep)

\* Producers and timer-driven flushes on shards that hold more than one chunk
InitFifo ==
  /\ InitLoaded(FifoSizes, DrainPush)
  /\ \A k \in LoadedShards : k > 2 => queues[k] = <<>>

SpecFifo == InitFifo /\ [][NextDrain]_vars

\* Requests arriving at Server.Push, which calls Flusher.Push; the context
\* may be cancelled, no flush is scheduled
InitServer ==
  /\ FlusherStart
  /\ LibIdle
  /\ pushFrom = "row"
  /\ HttpIdle
  /\ srvCalls = 0
  /\ srvLast = NoCall
  /\ queueIndex = U32(0)
  /\ queues = NewQueues(queueSize)
  /\ appended = [k \in Shards |-> <<>>]
  /\ accepted = {}
  /\ calls = 0
  /\ pushLimit = MaxRequests
  /\ tickLimit = 0

NextServer ==
  \/ \E p \in Producers : ServerPush(p)
  \/ \E p \in Producers : PushLoad(p)
  \/ \E p \in Producers : PushDisabled(p)
  \/ \E p \in Producers : PushInc(p)
  \/ \E p \in Producers : QueuePush(p)
  \/ RunCancel
  \/ Cancel

SpecServer == InitServer /\ [][NextServer]_vars

\* Requests arriving at Server.Push while the timer-triggered flush runs
InitAccept ==
  /\ FlusherStart
  /\ LibIdle
  /\ pushFrom = "row"
  /\ HttpIdle
  /\ srvCalls = 0
  /\ srvLast = NoCall
  /\ queueIndex = U32(0)
  /\ queues = NewQueues(queueSize)
  /\ appended = [k \in Shards |-> <<>>]
  /\ accepted = {}
  /\ calls = 0
  /\ pushLimit = FairPush
  /\ tickLimit = FairTicks

NextAccept ==
  \/ \E p \in Producers : ServerPush(p)
  \/ NextDrain

SpecAccept == InitAccept /\ [][NextAccept]_vars

\* The run goroutine alone, with up to 2500 items buffered in a shard
InitFlush == InitLoaded(PreloadSizes, 0)

NextFlush ==
  \/ RunTick
  \/ RunCancel
  \/ ClearLength
  \/ ClearSplit
  \/ FlushInsert
  \/ FlushNext
  \/ RunFinish
  \/ Cancel

SpecFlush == InitFlush /\ [][NextFlush]_vars

(* ------------------- Queue / Pool used by one caller -------------------- *)
\* Push: p.values = append(p.values, item); Queue.Push returns nil, Pool.Push
\* returns nothing.  The item pushed by the n-th call is n.
PoolPush ==
  /\ poolPc = "idle"
  /\ poolOps < MaxPoolOps
  /\ poolValues' = Append(poolValues, poolOps + 1)
  /\ poolSince' = Append(poolSince, poolOps + 1)
  /\ poolLast' = [op |-> "Push", err |-> IF poolKind = "Queue" THEN "nil" ELSE "none",
                  n |-> 0, result |-> <<>>]
  /\ poolOps' = poolOps + 1
  /\ UNCHANGED <<poolKind, poolPc, poolLength, clearVars,
               statsVars, connVars, migVars>>

\* Length: return len(p.values)
PoolLength ==
  /\ poolPc = "idle"
  /\ poolOps < MaxPoolOps
  /\ poolLast' = [op |-> "Length", err |-> "none", n |-> Len(poolValues), result |-> <<>>]
  /\ poolOps' = poolOps + 1
  /\ UNCHANGED <<poolKind, poolValues, poolPc, poolLength, poolSince, clearVars,
               statsVars, connVars, migVars>>

\* Clear, first half: length := p.Length()
PoolClearLength ==
  /\ poolPc = "idle"
  /\ poolOps < MaxPoolOps
  /\ poolLength' = Len(poolValues)
  /\ poolPc' = "split"
  /\ UNCHANGED <<poolKind, poolValues, poolSince, poolLast, poolOps, clearVars,
               statsVars, connVars, migVars>>

\* PoolClearSplit that leaves the values in place: result = p.values[:length]
PoolClearKeep ==
  /\ poolPc = "split"
  /\ poolLast' = [op |-> "Clear", err |-> "none", n |-> 0,
                  result |-> Slice(poolValues, 0, poolLength)]
  /\ poolSince' = <<>>
  /\ poolPc' = "idle"
  /\ poolOps' = poolOps + 1
  /\ UNCHANGED <<poolKind, poolValues, poolLength, clearVars,
               statsVars, connVars, migVars>>

\* Clear, second half: result, p.values = p.values[:length], p.values[length:]
PoolClearSplit ==
  /\ poolPc = "split"
  /\ poolLast' = [op |-> "Clear", err |-> "none", n |-> 0,
                  result |-> Slice(poolValues, 0, poolLength)]
  /\ poolValues' = Slice(poolValues, poolLength, Len(poolValues))
  /\ poolSince' = <<>>
  /\ poolPc' = "idle"
  /\ poolOps' = poolOps + 1
  /\ UNCHANGED <<poolKind, poolLength, clearVars,
               statsVars, connVars, migVars>>

\* the stats server with nothing to do
StatsAtRest ==
  /\ FlusherStart
  /\ ServerIdle
  /\ queueIndex = U32(0)
  /\ queues = NewQueues(queueSize)
  /\ appended = [k \in Shards |-> <<>>]
  /\ accepted = {}
  /\ calls = 0
  /\ pushLimit = 0
  /\ tickLimit = 0

\* NewQueue() or NewPool(), then any sequence of calls by one caller
InitPool ==
  /\ StatsAtRest
  /\ ConnIdle
  /\ MigIdle
  /\ ClearIdle
  /\ poolKind \in {"Queue", "Pool"}
  /\ poolValues = NewQueue
  /\ poolPc = "idle"
  /\ poolLength = 0
  /\ poolSince = <<>>
  /\ poolLast = [op |-> "New", err |-> "nil", n |-> 0, result |-> <<>>]
  /\ poolOps = 0

NextPool ==
  \/ PoolPush
  \/ PoolLength
  \/ PoolClearLength
  \/ PoolClearSplit

SpecPool == InitPool /\ [][NextPool]_vars

(* -------------------------- ConnectWithRetry --------------------------- *)
\* the defaults, connErrCh := make(chan error, 1), go func() { try := 0 ... }(),
\* and the caller reaches its select (which creates time.After(ConnectTimeout))
ConnStart ==
  /\ connPc = "start"
  /\ connOpts' =
       IF connIn.Retries = 0 /\ connIn.ConnectTimeout = 0
         THEN [connIn EXCEPT !.ConnectTimeout = DefaultConnectTimeout,
                             !.RetryDelay = DefaultRetryDelay]
         ELSE connIn
  /\ connPc' = "select"
  /\ connGo' = "loop"
  /\ UNCHANGED <<connIn, connCtx, connTry, connDb, connErr, connCh, connClosed,
                 connRet, connNow, connWake, connAttempts, connFailures>>
  /\ UNCHANGED <<statsVars, poolVars, migVars>>

\* top of the for loop: try++; if options.Retries <= try { err = ...; break }
ConnLoop ==
  /\ connGo = "loop"
  /\ connTry' = connTry + 1
  /\ IF connOpts.Retries <= connTry + 1
       THEN connErr' = "could not connect" /\ connGo' = "send"
       ELSE connErr' = connErr /\ connGo' = "connect"
  /\ UNCHANGED <<connIn, connOpts, connCtx, connPc, connDb, connCh, connClosed,
                 connRet, connNow, connWake, connAttempts, connFailures>>
  /\ UNCHANGED <<statsVars, poolVars, migVars>>

\* db, err = ConnectWithOptions(ctx, options): nil error leaves the loop, an
\* error enters the select on ctx.Done() and time.After(options.RetryDelay)
ConnAttempt ==
  /\ connGo = "connect"
  /\ connAttempts' = connAttempts + 1
  /\ \E ok \in BOOLEAN :
       IF ok
         THEN /\ connDb' = "handle"
              /\ connErr' = "nil"
              /\ connGo' = "send"
              /\ UNCHANGED <<connWake, connFailures>>
         ELSE /\ connDb' = "nil"
              /\ connErr' = "connect error"
              /\ connGo' = "wait"
              /\ connWake' = connNow + connOpts.RetryDelay
              /\ connFailures' = connFailures + 1
  /\ UNCHANGED <<connIn, connOpts, connCtx, connPc, connTry, connCh, connClosed,
                 connRet, connNow>>
  /\ UNCHANGED <<statsVars, poolVars, migVars>>

\* case <-time.After(options.RetryDelay): continue
ConnWaitDelay ==
  /\ connGo = "wait"
  /\ connNow >= connWake
  /\ connGo' = "loop"
  /\ UNCHANGED <<connIn, connOpts, connCtx, connPc, connTry, connDb, connErr, connCh,
                 connClosed, connRet, connNow, connWake, connAttempts, connFailures>>
  /\ UNCHANGED <<statsVars, poolVars, migVars>>

\* case <-ctx.Done(): break (out of the select), then break (out of the loop)
ConnWaitDone ==
  /\ connGo = "wait"
  /\ connCtx
  /\ connGo' = "send"
  /\ UNCHANGED <<connIn, connOpts, connCtx, connPc, connTry, connDb, connErr, connCh,
                 connClosed, connRet, connNow, connWake, connAttempts, connFailures>>
  /\ UNCHANGED <<statsVars, poolVars, migVars>>

\* connErrCh <- err: a send on a closed channel panics
ConnSend ==
  /\ connGo = "send"
  /\ IF connClosed
       THEN connGo' = "panic" /\ connCh' = connCh
       ELSE connGo' = "exited" /\ connCh' = Append(connCh, connErr)
  /\ UNCHANGED <<connIn, connOpts, connCtx, connPc, connTry, connDb, connErr,
                 connClosed, connRet, connNow, connWake, connAttempts, connFailures>>
  /\ UNCHANGED <<statsVars, poolVars, migVars>>

\* case err = <-connErrCh: break; return (db, err); deferred close(connErrCh)
ConnReceive ==
  /\ connPc = "select"
  /\ connCh # <<>>
  /\ connErr' = Head(connCh)
  /\ connCh' = Tail(connCh)
  /\ connRet' = [db |-> connDb, err |-> Head(connCh)]
  /\ connClosed' = TRUE
  /\ connPc' = "returned"
  /\ UNCHANGED <<connIn, connOpts, connCtx, connGo, connTry, connDb, connNow,
                 connWake, connAttempts, connFailures>>
  /\ UNCHANGED <<statsVars, poolVars, migVars>>

\* case <-time.After(options.ConnectTimeout): return nil, "db connect timed out"
ConnTimeout ==
  /\ connPc = "select"
  /\ connNow >= connOpts.ConnectTimeout
  /\ connDb' = "nil"
  /\ connErr' = "db connect timed out"
  /\ connRet' = [db |-> "nil", err |-> "db connect timed out"]
  /\ connClosed' = TRUE
  /\ connPc' = "returned"
  /\ UNCHANGED <<connIn, connOpts, connCtx, connGo, connTry, connCh, connNow,
                 connWake, connAttempts, connFailures>>
  /\ UNCHANGED <<statsVars, poolVars, migVars>>

\* case <-ctx.Done(): return nil, "db connection cancelled"
ConnCancelled ==
  /\ connPc = "select"
  /\ connCtx
  /\ connDb' = "nil"
  /\ connErr' = "db connection cancelled"
  /\ connRet' = [db |-> "nil", err |-> "db connection cancelled"]
  /\ connClosed' = TRUE
  /\ connPc' = "returned"
  /\ UNCHANGED <<connIn, connOpts, connCtx, connGo, connTry, connCh, connNow,
                 connWake, connAttempts, connFailures>>
  /\ UNCHANGED <<statsVars, poolVars, migVars>>

\* the context handed to ConnectWithRetry is cancelled
ConnCtxCancel ==
  /\ ~connCtx
  /\ connPc # "start"
  /\ connCtx' = TRUE
  /\ UNCHANGED <<connIn, connOpts, connPc, connGo, connTry, connDb, connErr, connCh,
                 connClosed, connRet, connNow, connWake, connAttempts, connFailures>>
  /\ UNCHANGED <<statsVars, poolVars, migVars>>

\* a second passes
ConnTimePass ==
  /\ connPc # "start"
  /\ connNow < MaxClock
  /\ connNow' = connNow + 1
  /\ UNCHANGED <<connIn, connOpts, connCtx, connPc, connGo, connTry, connDb, connErr,
                 connCh, connClosed, connRet, connWake, connAttempts, connFailures>>
  /\ UNCHANGED <<statsVars, poolVars, migVars>>

\* ConnectWithRetry called with any of the ConnectionOptions
InitConnect ==
  /\ StatsAtRest
  /\ PoolIdle
  /\ MigIdle
  /\ \E o \in ConnectionOptions : ConnectCalled(o)

NextConnect ==
  \/ ConnStart
  \/ ConnLoop
  \/ ConnAttempt
  \/ ConnWaitDelay
  \/ ConnWaitDone
  \/ ConnSend
  \/ ConnReceive
  \/ ConnTimeout
  \/ ConnCancelled
  \/ ConnCtxCancel
  \/ ConnTimePass

SpecConnect == InitConnect /\ [][NextConnect]_vars

(* ------------------------------- db.Run -------------------------------- *)
\* the file names in the order of sort.Strings
NameOrder == <<DownFile, [stem |-> "1", suffix |-> ".up.sql"],
               [stem |-> "2", suffix |-> ".up.sql"], MainFile>>

\* FS.Migrations: the non-empty files matching *.up.sql, sorted
Migrations(fs) ==
  SelectSeq(NameOrder, LAMBDA f : fs[f] # 0 /\ f.suffix = ".up.sql")

\* the files Run hands to migrate, in order: migrations.sql, then Migrations()
RunList == <<MainFile>> \o Migrations(migFS)

\* the file migrate is working on, and whether its status is logged
CurFile == RunList[migFile]
UseLog(f) == f # MainFile

\* MigReturn of a Run that goes on with the next file after an error
MigReturnKeepGoing(err) ==
  IF migFile = Len(RunList) THEN
    /\ migResults' = Append(migResults, err)
    /\ migPc' = "idle"
    /\ migFile' = migFile
  ELSE
    /\ migResults' = migResults
    /\ migPc' = "begin"
    /\ migFile' = migFile + 1

\* migrate returned err: Run returns it, or goes on to the next file, or
\* returns nil after the last one
MigReturn(err) ==
  IF err # "nil" THEN
    /\ migResults' = Append(migResults, err)
    /\ migPc' = "idle"
    /\ migFile' = migFile
  ELSE IF migFile = Len(RunList) THEN
    /\ migResults' = Append(migResults, "nil")
    /\ migPc' = "idle"
    /\ migFile' = migFile
  ELSE
    /\ migResults' = migResults
    /\ migPc' = "begin"
    /\ migFile' = migFile + 1

\* Run(project, db) is called
MigRun ==
  /\ migPc = "idle"
  /\ migRun < MigrateRuns
  /\ migRun' = migRun + 1
  /\ migFile' = 1
  /\ migPc' = "begin"
  /\ UNCHANGED <<migFS, migTable, migStatus, migIdx, migErr, migResults, migLog>>
  /\ UNCHANGED <<statsVars, poolVars, connVars>>

\* MigBegin without the test of status.Status == "ok"
MigBeginNoSkip ==
  /\ migPc = "begin"
  /\ migIdx' = 0
  /\ migErr' = "nil"
  /\ IF ~UseLog(CurFile) THEN
       /\ migStatus' = NoStatus
       /\ migPc' = "up"
       /\ UNCHANGED <<migFile, migResults, migLog>>
     ELSE
       \E getOk \in BOOLEAN :
         LET row == migTable[CurFile]
             status == IF row.present THEN [index |-> row.index, status |-> row.status]
                       ELSE NoStatus
         IN /\ migLog' = Append(migLog, [run |-> migRun, file |-> CurFile, kind |-> "get",
                                         idx |-> 0, ok |-> getOk])
            /\ IF ~getOk THEN
                 /\ migStatus' = NoStatus
                 /\ MigReturn("get error")
               ELSE
                 /\ migStatus' = status
                 /\ migPc' = "up"
                 /\ UNCHANGED <<migFile, migResults>>
  /\ UNCHANGED <<migFS, migTable, migRun>>
  /\ UNCHANGED <<statsVars, poolVars, connVars>>

\* migrate(filename) up to the call of up(): status := migration{...}; with
\* useLog, db.Get reads the file's row (sql.ErrNoRows leaves status as it is,
\* another error is returned), and Status "ok" skips the file
MigBegin ==
  /\ migPc = "begin"
  /\ migIdx' = 0
  /\ migErr' = "nil"
  /\ IF ~UseLog(CurFile) THEN
       /\ migStatus' = NoStatus
       /\ migPc' = "up"
       /\ UNCHANGED <<migFile, migResults, migLog>>
     ELSE
       \E getOk \in BOOLEAN :
         LET row == migTable[CurFile]
             status == IF row.present THEN [index |-> row.index, status |-> row.status]
                       ELSE NoStatus
             skip == getOk /\ status.status = "ok"
         IN /\ migLog' = Append(migLog, [run |-> migRun, file |-> CurFile,
                                         kind |-> IF skip THEN "skip" ELSE "get",
                                         idx |-> 0, ok |-> getOk])
            /\ IF ~getOk THEN
                 /\ migStatus' = NoStatus
                 /\ MigReturn("get error")
               ELSE IF skip THEN
                 /\ migStatus' = status
                 /\ MigReturn("nil")
               ELSE
                 /\ migStatus' = status
                 /\ migPc' = "up"
                 /\ UNCHANGED <<migFile, migResults>>
  /\ UNCHANGED <<migFS, migTable, migRun>>
  /\ UNCHANGED <<statsVars, poolVars, connVars>>

\* MigExec that takes the stored index as the last statement applied:
\* `if idx > status.StatementIndex`
MigExecAfterIndex ==
  /\ migPc = "up"
  /\ migIdx < migFS[CurFile]
  /\ IF migIdx > migStatus.index THEN
       \E ok \in BOOLEAN :
         /\ migLog' = Append(migLog, [run |-> migRun, file |-> CurFile, kind |-> "exec",
                                      idx |-> migIdx, ok |-> ok])
         /\ IF ok THEN
              /\ migStatus' = [migStatus EXCEPT !.index = migIdx]
              /\ migIdx' = migIdx + 1
              /\ UNCHANGED <<migPc, migErr>>
            ELSE
              /\ migStatus' = [index |-> migIdx, status |-> "exec error"]
              /\ migErr' = "exec error"
              /\ migPc' = "store"
              /\ migIdx' = migIdx
     ELSE
       /\ migIdx' = migIdx + 1
       /\ UNCHANGED <<migStatus, migErr, migPc, migLog>>
  /\ UNCHANGED <<migFS, migTable, migRun, migFile, migResults>>
  /\ UNCHANGED <<statsVars, poolVars, connVars>>

\* one iteration of `for idx, stmt := range stmts` in up(): a statement below
\* status.StatementIndex is passed over; otherwise StatementIndex = idx and
\* execQuery runs it, and an error sets status.Status and leaves up()
MigExec ==
  /\ migPc = "up"
  /\ migIdx < migFS[CurFile]
  /\ IF migIdx >= migStatus.index THEN
       \E ok \in BOOLEAN :
         /\ migLog' = Append(migLog, [run |-> migRun, file |-> CurFile, kind |-> "exec",
                                      idx |-> migIdx, ok |-> ok])
         /\ IF ok THEN
              /\ migStatus' = [migStatus EXCEPT !.index = migIdx]
              /\ migIdx' = migIdx + 1
              /\ UNCHANGED <<migPc, migErr>>
            ELSE
              /\ migStatus' = [index |-> migIdx, status |-> "exec error"]
              /\ migErr' = "exec error"
              /\ migPc' = "store"
              /\ migIdx' = migIdx
     ELSE
       /\ migIdx' = migIdx + 1
       /\ UNCHANGED <<migStatus, migErr, migPc, migLog>>
  /\ UNCHANGED <<migFS, migTable, migRun, migFile, migResults>>
  /\ UNCHANGED <<statsVars, poolVars, connVars>>

\* the loop of up() is over: status.Status = "ok"; return nil
MigUpDone ==
  /\ migPc = "up"
  /\ migIdx = migFS[CurFile]
  /\ migStatus' = [migStatus EXCEPT !.status = "ok"]
  /\ migErr' = "nil"
  /\ migPc' = "store"
  /\ UNCHANGED <<migFS, migTable, migRun, migFile, migIdx, migResults, migLog>>
  /\ UNCHANGED <<statsVars, poolVars, connVars>>

\* MigStore that writes the status only when up() returned nil
MigStoreOnSuccess ==
  /\ migPc = "store"
  /\ IF UseLog(CurFile) /\ migErr = "nil" THEN
       \E stored \in BOOLEAN :
         /\ migTable' =
              IF stored
                THEN [migTable EXCEPT ![CurFile] =
                        [present |-> TRUE, index |-> migStatus.index,
                         status |-> migStatus.status]]
                ELSE migTable
         /\ migLog' = Append(migLog, [run |-> migRun, file |-> CurFile, kind |-> "store",
                                      idx |-> migStatus.index, ok |-> stored])
     ELSE UNCHANGED <<migTable, migLog>>
  /\ MigReturn(migErr)
  /\ UNCHANGED <<migFS, migRun, migStatus, migIdx, migErr>>
  /\ UNCHANGED <<statsVars, poolVars, connVars>>

\* after up(): with useLog, "replace into migrations set ..." writes status
\* (a failure of the write is logged only); migrate returns the error of up()
MigStore ==
  /\ migPc = "store"
  /\ IF UseLog(CurFile) THEN
       \E stored \in BOOLEAN :
         /\ migTable' =
              IF stored
                THEN [migTable EXCEPT ![CurFile] =
                        [present |-> TRUE, index |-> migStatus.index,
                         status |-> migStatus.status]]
                ELSE migTable
         /\ migLog' = Append(migLog, [run |-> migRun, file |-> CurFile, kind |-> "store",
                                      idx |-> migStatus.index, ok |-> stored])
     ELSE UNCHANGED <<migTable, migLog>>
  /\ MigReturn(migErr)
  /\ UNCHANGED <<migFS, migRun, migStatus, migIdx, migErr>>
  /\ UNCHANGED <<statsVars, poolVars, connVars>>

\* Run called MigrateRuns times, one call after the other, for any project
InitMigrate ==
  /\ StatsAtRest
  /\ PoolIdle
  /\ ConnIdle
  /\ \E fs \in Projects : MigrateCalled(fs)

NextMigrate ==
  \/ MigRun
  \/ MigBegin
  \/ MigExec
  \/ MigUpDone
  \/ MigStore

SpecMigrate == InitMigrate /\ [][NextMigrate]_vars

(* ------------------------------ claims --------------------------------- *)
AllIdle == \A p \in Producers : pc[p] = "idle"

\* the run goroutine has not left its first select: no Clear has been called
NoDrain == runPc = "select" /\ ticks = 0

\* the items handed to some NamedExec call
Inserted == UNION {Range(inserts[i].rows) : i \in 1..Len(inserts)}

\* C1: no accepted event is lost at shutdown: once the done signal is
\* observable, every item whose Push returned nil has been drained from its
\* shard and handed to an insert call.
C1_NoAcceptedEventLost == done => accepted \subseteq Inserted

\* C2: when N concurrent Flusher.Push calls made while Running, with no drain in
\* between, have all completed, none returned an error and the sum of Length()
\* over all shards is N.
C2_PushCountsAddUp ==
  (AllIdle /\ enabled /\ NoDrain) =>
    /\ rejected = {}
    /\ late = {}
    /\ Cardinality(accepted) = calls
    /\ SumLen(queues, Shards) = calls

\* the Push called last overtook the one called before it: its item sits in
\* the shard of the counter value calls - 1
Overtaken ==
  LET k == AndMask(IncN(calls - 1), queueMask) IN
    /\ calls > 1
    /\ Len(queues[k]) > 0
    /\ queues[k][Len(queues[k])] = calls

\* C2 witness: all Push calls have completed, more of them than there are
\* shards, the last ones concurrently
C2_Witness ==
  /\ AllIdle /\ enabled /\ NoDrain
  /\ calls = pushLimit /\ calls > queueSize
  /\ Overtaken
  /\ SumLen(queues, Shards) = calls

\* C8: after K successful Flusher.Push calls with no drain in between, every
\* one of the M = 16 shards holds floor(K/M) or ceil(K/M) events.
C8_RoundRobinBalanced ==
  (AllIdle /\ NoDrain) =>
    LET K == Cardinality(accepted) IN
      \A k \in Shards :
        Len(queues[k]) \in {K \div queueSize, (K + queueSize - 1) \div queueSize}

\* C8 witness: K = 20 pushes, some shards hold 2 events and some hold 1
C8_Witness ==
  /\ AllIdle /\ NoDrain
  /\ calls = pushLimit /\ Overtaken
  /\ Cardinality(accepted) = queueSize + 4
  /\ \E k \in Shards : Len(queues[k]) = 2
  /\ \E k \in Shards : Len(queues[k]) = 1

\* C3: for every shard, under any interleaving of Push with Clear, each appended
\* item is in exactly one place: in what Clear has returned or still in the
\* shard; none is in both, none is dropped, none is returned twice.
C3_DrainKeepsEveryItemOnce ==
  \A k \in Shards :
    /\ Range(drained[k]) \cap Range(queues[k]) = {}
    /\ Range(drained[k]) \cup Range(queues[k]) = Range(appended[k])
    /\ Len(drained[k]) + Len(queues[k]) = Len(appended[k])

\* C3 witness: a Push appended to the shard while Clear was between reading the
\* length and splitting: Clear returned items and left the new one behind
C3_Witness ==
  /\ runPc = "rows"
  /\ Len(rows) > 0
  /\ Len(queues[flushK]) > 0

\* C4: once Shutdown has returned, every Push called afterwards returns
\* errFlusherDisabled, and the background loop makes no further Clear or
\* insert call.
C4_NothingAfterShutdown ==
  [][shutReturns > 0 =>
       /\ runPc = "exited" /\ runPc' = "exited"
       /\ drained' = drained
       /\ inserts' = inserts
       /\ (calls' # calls => calls' \in rejected')
       /\ late' \subseteq rejected']_vars

\* C4 witness: a Push called after Shutdown returned has been rejected
C4_Witness == shutReturns > 0 /\ late # {} /\ late \subseteq rejected

\* C5: a Push that finds the flusher not Running returns errFlusherDisabled
\* and changes nothing: no shard changes, the counter is not incremented and
\* the caller is left with no write in progress.
C5_RejectedPushChangesNothing ==
  [][(~enabled /\ calls' # calls) =>
       /\ calls' \in rejected'
       /\ calls' \notin accepted'
       /\ queues' = queues
       /\ appended' = appended
       /\ queueIndex' = queueIndex
       /\ pc' = pc]_vars

\* C5 witness: a Push has been rejected while a shard holds an item
C5_Witness ==
  /\ rejected # {}
  /\ \E k \in Shards : Len(queues[k]) > 0

\* C9: after the flusher has reached Stopped, one more Shutdown call does not
\* block, no Shutdown call starts a flush, and no item is handed to an insert
\* call a second time.
C9_ShutdownIdempotent ==
  [][/\ (shutReturns > 0 /\ shutPc = "waiting") => ENABLED ShutdownReturn
     /\ shutReturns > 0 => (runPc' = runPc /\ drained' = drained /\ inserts' = inserts)
     /\ shutPc' # shutPc =>
          (runPc' = runPc /\ queues' = queues /\ inserts' = inserts /\ done' = done)
    ]_vars

\* C9 witness: Shutdown has returned twice, after items were inserted
C9_Witness == shutReturns = 2 /\ inserts # <<>>

\* C10: Shutdown never returns before the loop has finished its last flush,
\* and once the parent context is cancelled the loop reaches Stopped and a
\* waiting Shutdown returns.
C10_ShutdownWaitsForStopped ==
  /\ [](shutReturns > 0 => (runPc = "exited" /\ final /\ ~enabled))
  /\ (ctxDone ~> done)
  /\ ((ctxDone /\ shutPc = "waiting") ~> (shutReturns > 0))

\* C10 witness: Shutdown has returned after the loop inserted an item and
\* exited
C10_Witness ==
  /\ shutReturns = 1
  /\ runPc = "exited"
  /\ inserts # <<>>

\* the NamedExec calls made for shard k, in call order
CallsFor(k) == SelectSeq(inserts, LAMBDA c : c.queue = k)

\* the rows of a sequence of NamedExec calls, one after the other
RECURSIVE Concat(_)
Concat(cs) == IF cs = <<>> THEN <<>> ELSE Head(cs).rows \o Concat(Tail(cs))

Flushing == runPc \in {"clearLength", "clearSplit", "rows"}

\* a whole flush pass has been completed
PassCompleted ==
  \/ ~Flushing /\ (ticks > 0 \/ final)
  \/ Flushing /\ (ticks > 1 \/ (final /\ ticks > 0))

\* flush is done with shard k
ShardFlushed(k) ==
  \/ PassCompleted
  \/ Flushing /\ (flushK > k \/ (flushK = k /\ runPc = "rows" /\ rows = <<>>))

\* C6: for a shard drained with n events, flush makes ceil(n/1000) insert calls
\* for it, each of 1000 rows except possibly the last, and the chunks in call
\* order, one after the other, are the drained batch in append order.
C6_Chunking ==
  \A k \in Shards :
    ShardFlushed(k) =>
      LET cs == CallsFor(k)
          n == Len(drained[k])
      IN /\ Len(cs) = (n + batchInsertSize - 1) \div batchInsertSize
         /\ \A i \in 1..Len(cs) :
              Len(cs[i].rows) =
                IF i < Len(cs) THEN batchInsertSize
                ELSE n - batchInsertSize * (Len(cs) - 1)
         /\ Concat(cs) = drained[k]

\* C6 witness: a shard drained with 2500 events got calls of 1000, 1000, 500
C6_Witness ==
  \E k \in Shards :
    /\ ShardFlushed(k)
    /\ Len(drained[k]) = 2500
    /\ [i \in 1..Len(CallsFor(k)) |-> Len(CallsFor(k)[i].rows)] = <<1000, 1000, 500>>

\* C7: when insert calls fail, the flush pass still hands every buffered event
\* of every shard to an insert call, and the loop stays alive: it leaves the
\* loop only on cancellation and takes the next timer tick.
C7_PartialFailureIsolation ==
  /\ PassCompleted => \A k \in Shards : Concat(CallsFor(k)) = appended[k]
  /\ runPc \in {"finish", "exited"} => (ctxDone /\ final)
  /\ (runPc = "select" /\ ticks < tickLimit) => ENABLED RunTick

\* C7 witness: a chunk of shard 2 failed, a later chunk of shard 2 and a chunk
\* of shard 3 were still submitted, and the loop has handled the next tick
C7_Witness ==
  /\ ticks = 2 /\ runPc = "select"
  /\ \E i, j, l \in 1..Len(inserts) :
       /\ i < j /\ j < l
       /\ ~inserts[i].ok /\ inserts[i].queue = 2
       /\ inserts[j].queue = 2
       /\ inserts[l].queue = 3

\* the rows of shard k that flush holds and has not yet handed to NamedExec
Pending(k) ==
  IF runPc = "rows" /\ flushK = k THEN rows ELSE <<>>

\* C11: within one shard events are drained in append order, across
\* successive drains as well as within one: what Clear has returned so far,
\* followed by what the shard still holds, is the append history; and the
\* rows of the insert calls for the shard, chunk after chunk in call order,
\* followed by the rows not yet submitted, are the drained events in that
\* same order.
C11_FifoPerShard ==
  \A k \in Shards :
    /\ appended[k] = drained[k] \o queues[k]
    /\ drained[k] = Concat(CallsFor(k)) \o Pending(k)

\* C11 witness: a shard was drained twice, first with 1001 events submitted
\* in two chunks, then with an event pushed after the first drain
C11_Witness ==
  \E k \in Shards :
    /\ Len(drained[k]) = batchInsertSize + 2
    /\ [i \in 1..Len(CallsFor(k)) |-> Len(CallsFor(k)[i].rows)] = <<1000, 1, 1>>
    /\ queues[k] = <<>>

\* the flush goroutine is at job.db.NamedExec with a chunk of rows
InsertInProgress == runPc = "rows" /\ Len(rows) > 0

\* C14: producers are never blocked by database I/O: while an insert call is
\* in progress no queue mutex is held, and every producer inside
\* Flusher.Push can take its next step, whichever shard it is heading for.
C14_PushNotBlockedByInsert ==
  InsertInProgress =>
    /\ locked = {}
    /\ \A p \in Producers :
         /\ pc[p] = "inc" => ENABLED PushInc(p)
         /\ pc[p] = "push" => ENABLED QueuePush(p)
         /\ (pc[p] = pushFrom /\ calls < pushLimit) =>
              ENABLED (PushLoad(p) \/ PushDisabled(p))

\* C14 witness: while a chunk of a shard is at NamedExec, a producer is about
\* to append to that same shard, and can
C14_Witness ==
  /\ InsertInProgress
  /\ \E p \in Producers :
       pc[p] = "push" /\ index[p] = flushK /\ ENABLED QueuePush(p)

\* the conditions under which Server.Push must reject request r
Invalid(r) ==
  r.property = "" \/ r.property # "news" \/ r.id < 1 \/ r.section < 1

\* C15: a Server.Push call whose request is invalid, or whose identifier
\* generator fails, returns an error and touches no shard state: nothing is
\* appended, the counter is unchanged and the caller has no Flusher.Push in
\* progress.
C15_RejectedRequestTouchesNothing ==
  [][(srvCalls' # srvCalls /\ (Invalid(srvLast'.req) \/ srvLast'.idErr)) =>
       /\ srvLast'.err # "nil"
       /\ queues' = queues
       /\ appended' = appended
       /\ queueIndex' = queueIndex
       /\ calls' = calls
       /\ pc' = pc]_vars

\* C15 witness: after an accepted request put an event in a shard, a request
\* with section 0 and a request whose NextID failed have been rejected
C15_Witness ==
  /\ SumLen(queues, Shards) = 1
  /\ srvCalls = MaxRequests
  /\ \/ srvLast.err = "missing section"
     \/ srvLast.idErr /\ srvLast.err = "sonyflake error"

\* the events a sequence holds, for each of the queues or drain histories q
Held(q) == UNION {Range(q[k]) : k \in Shards}

\* the shards that hold event e, and the shards flush has drained it from
OwnerShards(e) == {k \in Shards : \E i \in 1..Len(queues[k]) : queues[k][i] = e}
DrainedFrom(e) == {k \in Shards : \E i \in 1..Len(drained[k]) : drained[k][i] = e}

\* the sum of Length() over the queues 0..k of q
RECURSIVE LenUpTo(_, _)
LenUpTo(q, k) == IF k < 0 THEN 0 ELSE Len(q[k]) + LenUpTo(q, k - 1)
TotalLen(q) == LenUpTo(q, queueSize - 1)

\* C20: event conservation: the number of events accepted by Flusher.Push is
\* the sum of the shard lengths plus the number of events drained so far, and
\* each accepted event is in exactly one place: held by one shard, or drained
\* from one shard and held by none.
C20_EventConservation ==
  /\ Cardinality(accepted) = TotalLen(queues) + TotalLen(drained)
  /\ \A e \in accepted :
       Cardinality(OwnerShards(e)) + Cardinality(DrainedFrom(e)) = 1

\* C20 witness: of two accepted events one has been drained and the other
\* still sits in its shard
C20_Witness ==
  /\ Cardinality(accepted) = 2
  /\ TotalLen(queues) = 1
  /\ TotalLen(drained) = 1

\* the number of insert calls whose rows contain event e
TimesSubmitted(e) ==
  Cardinality({i \in 1..Len(inserts) : e \in Range(inserts[i].rows)})

\* C13: a failed insert is never retried and its events are never requeued:
\* every drained event is handed to exactly one insert call (or is still
\* waiting in flush's rows for its one call), the events of a failed call
\* are in no shard and not among the rows still to be submitted, and the
\* failure reaches no Push caller: the events stay accepted, none is rejected.
C13_FailedInsertNotRetried ==
  /\ \A k \in Shards : \A e \in Range(drained[k]) :
       TimesSubmitted(e) + (IF e \in Range(Pending(k)) THEN 1 ELSE 0) = 1
  /\ \A i \in 1..Len(inserts) :
       ~inserts[i].ok =>
         /\ Range(inserts[i].rows) \cap Held(queues) = {}
         /\ Range(inserts[i].rows) \cap Range(rows) = {}
         /\ Range(inserts[i].rows) \subseteq accepted
  /\ rejected = {}

\* C13 witness: an insert call of a shard failed, and in the next flush pass
\* an event pushed later to the same shard was submitted
C13_Witness ==
  /\ ticks = 2 /\ runPc = "select"
  /\ \E i, j \in 1..Len(inserts) :
       /\ i < j
       /\ ~inserts[i].ok
       /\ inserts[j].queue = inserts[i].queue

\* C19: NewQueues(n) returns n queues, each empty, and they are independent:
\* a step that changes one queue (a Push or a Clear) leaves every other
\* queue as it was.
C19_QueuesIndependent ==
  /\ DOMAIN queues = 0..(queueSize - 1)
  /\ \A k \in DOMAIN queues : Len(queues[k]) = 0
  /\ [][Cardinality({k \in Shards : queues'[k] # queues[k]}) <= 1]_vars

\* C19 witness: one queue has been cleared of its event while another queue
\* still holds the event pushed to it
C19_Witness ==
  \E k, j \in Shards :
    /\ k # j
    /\ Len(drained[k]) > 0 /\ queues[k] = <<>>
    /\ Len(queues[j]) > 0

\* C12: for a queue or pool used by one caller, Length() is the number of
\* Push calls since creation or since the last Clear; Clear returns exactly
\* the items pushed since then, as many as Length reported, and leaves the
\* length at 0; Push on a queue returns nil.
C12_SingleCallerQueue ==
  /\ Len(poolValues) = 0
  /\ [][/\ poolPc' = "idle" => Len(poolValues') = Len(poolSince')
        /\ (poolOps' # poolOps /\ poolLast'.op = "Length") =>
             poolLast'.n = Len(poolSince)
        /\ (poolOps' # poolOps /\ poolLast'.op = "Clear") =>
             /\ poolLast'.result = poolSince
             /\ Len(poolLast'.result) = poolLength
             /\ Len(poolValues') = 0
        /\ (poolOps' # poolOps /\ poolLast'.op = "Push" /\ poolKind = "Queue") =>
             poolLast'.err = "nil"]_vars

\* C12 witness: after three pushes Clear returned the three items in order and
\* left the queue empty
C12_Witness ==
  /\ poolKind = "Queue"
  /\ poolLast.op = "Clear"
  /\ poolLast.result = <<1, 2, 3>>
  /\ poolValues = <<>>
  /\ poolOps = 4

\* C16: with Retries and ConnectTimeout both zero, ConnectWithRetry applies
\* the defaults (5 minutes, 5 seconds) and does not give up with the
\* could-not-connect error before it has made a connection attempt.
C16_DefaultsKeepRetrying ==
  (connIn.Retries = 0 /\ connIn.ConnectTimeout = 0 /\ connPc # "start") =>
    /\ connOpts.ConnectTimeout = DefaultConnectTimeout
    /\ connOpts.RetryDelay = DefaultRetryDelay
    /\ connErr = "could not connect" => connAttempts > 0

\* C17: with Retries = R > 0 and a connector that always fails,
\* ConnectWithRetry makes at most R connection attempts and returns the
\* could-not-connect error only after R attempts have been made and failed.
C17_RetriesIsMaxTryCount ==
  (connIn.Retries > 0 /\ connFailures = connAttempts) =>
    /\ connAttempts <= connIn.Retries
    /\ connRet.err = "could not connect" => connAttempts = connIn.Retries

\* the entries of the log made by the r-th Run
LogOf(r) == SelectSeq(migLog, LAMBDA e : e.run = r)

\* the r-th Run returned nil and every status write it made was stored
RunStored(r) ==
  /\ Len(migResults) >= r
  /\ migResults[r] = "nil"
  /\ \A i \in 1..Len(migLog) :
       (migLog[i].run = r /\ migLog[i].kind = "store") => migLog[i].ok

\* C18: running the migrations twice is idempotent: after a first Run that
\* returned nil with its status rows stored, the second Run executes no
\* statement of a service migration file; when it reads the status rows it
\* skips every service file, and it executes migrations.sql again in full.
C18_SecondRunSkips ==
  RunStored(1) =>
    /\ \A i \in 1..Len(migLog) :
         (migLog[i].run = 2 /\ migLog[i].kind = "exec") => migLog[i].file = MainFile
    /\ (Len(migResults) = 2 /\ migResults[2] = "nil") =>
         /\ \A j \in 1..Len(Migrations(migFS)) :
              \E i \in 1..Len(migLog) :
                /\ migLog[i].run = 2
                /\ migLog[i].kind = "skip"
                /\ migLog[i].file = Migrations(migFS)[j]
         /\ [i \in 1..migFS[MainFile] |->
              [run |-> 2, file |-> MainFile, kind |-> "exec", idx |-> i - 1, ok |-> TRUE]]
              = SelectSeq(LogOf(2), LAMBDA e : e.kind = "exec")

\* C18 witness: two service files of two statements each were migrated and
\* stored by the first Run, and the second Run has returned nil
C18_Witness ==
  /\ RunStored(1)
  /\ Len(migResults) = 2 /\ migResults[2] = "nil"
  /\ Len(Migrations(migFS)) = 2
  /\ \A f \in UpFiles : migFS[f] = 2 /\ migTable[f].status = "ok"

\* the run goroutine is in the ctx.Done() branch of its select, or past it
CancelTaken == final

\* C21: on observing cancellation the loop first stores enabled = false, then
\* calls flush once more, over all shards, then exits: the cancel branch is
\* entered from select with enabled cleared in that step, before the first Clear
\* of the last flush; from then on no timer tick is taken and the flusher stays
\* disabled; when the loop has exited every shard has been cleared once per
\* tick and once more; and a cancellation seen by select leads to the exit.
C21_CancelFlushesOnceThenExits ==
  /\ [][(CancelTaken' /\ ~CancelTaken) =>
         /\ ctxDone /\ runPc = "select"
         /\ ~enabled'
         /\ runPc' = "clearLength" /\ flushK' = 0
         /\ clears' = clears]_vars
  /\ [][CancelTaken => (CancelTaken' /\ ticks' = ticks /\ ~enabled')]_vars
  /\ [][(enabled /\ ~enabled') => CancelTaken']_vars
  /\ [](runPc \in {"finish", "exited"} =>
         (CancelTaken /\ \A k \in Shards : clears[k] = ticks + 1))
  /\ ((ctxDone /\ runPc = "select") ~> (runPc = "exited"))

\* C21 witness: after a timer-triggered flush the loop took the cancel branch,
\* flushed an event in its last flush and exited
C21_Witness ==
  /\ runPc = "exited"
  /\ ticks = 1
  /\ \A k \in Shards : clears[k] = 2
  /\ inserts # <<>>

\* C22: Flusher.Done() is the flusher's own signal, distinct from the parent
\* context: cancelling the parent does not close it; it is closed only by the
\* run goroutine, after the last flush has returned; and whenever it is closed
\* the flusher is disabled, the loop has exited and the last flush has gone
\* over every shard.
C22_DoneIsNotCancellation ==
  /\ [][ctxDone' # ctxDone => done' = done]_vars
  /\ [][(done' /\ ~done) =>
         /\ runPc = "finish" /\ runPc' = "exited"
         /\ CancelTaken /\ ~Flushing]_vars
  /\ [](done => /\ ~enabled
                /\ runPc = "exited"
                /\ \A k \in Shards : clears[k] = ticks + 1)

\* C22 witness: the parent context is cancelled and the last flush is at an
\* insert call: Flusher.Done() is not closed
C22_Witness ==
  /\ ctxDone /\ ~done
  /\ CancelTaken /\ InsertInProgress

\* C23: Clear is an atomic swap: at the step where Clear splits the storage
\* and releases the lock, the slice it returns is the whole of the shard's
\* contents at that moment, as many as the length it captured, and the shard
\* is left empty, also when Push calls run concurrently.
C23_DrainIsAtomicSwap ==
  [][(runPc = "clearSplit" /\ runPc' = "rows") =>
       /\ length = Len(queues[flushK])
       /\ rows' = queues[flushK]
       /\ queues'[flushK] = <<>>]_vars

\* the lifecycle state of the Flusher: Running until the loop takes the
\* ctx.Done() case, Draining until run returns, then Stopped
FlusherState ==
  IF runPc = "exited" THEN "Stopped"
  ELSE IF CancelTaken THEN "Draining"
  ELSE "Running"

\* C24: the lifecycle is monotone: the state moves only from Running to
\* Draining and from Draining to Stopped; enabled is set exactly while Running
\* and, once cleared, is never set again; every Push that starts after that is
\* rejected and accepts nothing; and in Stopped the cancelled context triggers
\* nothing more: neither branch of the select can be taken and the state of
\* the loop and its histories of Clear and insert calls no longer change.
C24_LifecycleMonotone ==
  /\ [][\/ FlusherState' = FlusherState
        \/ FlusherState = "Running" /\ FlusherState' = "Draining"
        \/ FlusherState = "Draining" /\ FlusherState' = "Stopped"]_vars
  /\ [](enabled <=> FlusherState = "Running")
  /\ [][~enabled => ~enabled']_vars
  /\ [][(~enabled /\ calls' # calls) =>
         (calls' \in rejected' /\ calls' \notin accepted' /\ pc' = pc)]_vars
  /\ [](FlusherState = "Stopped" =>
         (ctxDone /\ ~ENABLED RunCancel /\ ~ENABLED RunTick))
  /\ [][FlusherState = "Stopped" =>
         UNCHANGED <<enabled, ctxDone, done, runVars, drained, inserts, clears>>]_vars

\* C24 witness: the flusher went through a timer flush, the cancel branch and
\* the exit, and a Push called in Stopped has been rejected
C24_Witness ==
  /\ FlusherState = "Stopped"
  /\ ticks > 0
  /\ calls \in rejected
  /\ accepted # {}

\* the number of flush calls run has made: one per tick taken, and the one of
\* the cancel branch
FlushCalls == ticks + (IF CancelTaken THEN 1 ELSE 0)

\* Queue.Clear has been called on shard k and has not returned
ClearInProgress(k) == runPc = "clearSplit" /\ flushK = k

\* C25: one background loop runs all flushes, so at most one flush pass is
\* executing at any time: a flush, timer-triggered or final, is called only
\* when none is in progress and every earlier one has gone over all shards;
\* at any time every shard has been cleared once by each flush called, except
\* that the one in progress has not yet reached some; and Clear is called on a
\* shard only when no Clear call is in progress.
C25_OneFlushAtATime ==
  /\ [][FlushCalls' # FlushCalls =>
         /\ FlushCalls' = FlushCalls + 1
         /\ ~Flushing
         /\ \A k \in Shards : clears[k] = FlushCalls]_vars
  /\ [](\A k \in Shards :
          \/ clears[k] = FlushCalls
          \/ Flushing /\ clears[k] = FlushCalls - 1)
  /\ [][\A k \in Shards :
          clears'[k] # clears[k] =>
            /\ clears'[k] = clears[k] + 1
            /\ \A j \in Shards : ~ClearInProgress(j)
            /\ ClearInProgress(k)']_vars

\* C25 witness: after two timer-triggered flushes, the first of which drained
\* shard 3, the final flush is inside Clear on that shard
C25_Witness ==
  /\ ticks = 2 /\ CancelTaken
  /\ ClearInProgress(3)
  /\ clears[3] = 3
  /\ Len(drained[3]) > 0

\* the events of a run of SpecTimer
TimerEvents == 1..FairPush

\* C26: while the flusher is Running, the timer fires and insert calls
\* return, every event accepted by Push is eventually drained and handed to
\* an insert call, with the context never cancelled: an accepted event is
\* submitted provided the timer has a tick to come, and an event that Clear
\* has returned is submitted in any case.
C26_AcceptedEventuallyInserted ==
  /\ [](enabled /\ ~ctxDone /\ ~CancelTaken)
  /\ \A e \in TimerEvents :
       (e \in accepted /\ ticks < tickLimit) ~> (e \in Inserted)
  /\ \A e \in TimerEvents :
       (e \in Held(drained)) ~> (e \in Inserted)

\* C26 witness: an event pushed while the first flush was under way has been
\* submitted by the second timer-triggered flush, with no cancellation
C26_Witness ==
  /\ ~ctxDone /\ enabled
  /\ ticks = 2
  /\ calls = pushLimit /\ calls \in Inserted
  /\ \E k \in Shards : calls \in Range(appended[k]) /\ clears[k] = 2

\* the flush in progress has called Clear on shard k
Reached(k) == Flushing /\ (flushK > k \/ (flushK = k /\ runPc # "clearLength"))

\* C27: each flush pass calls Clear exactly once on every one of the 16
\* shards, whatever the other shards hold: the number of Clear calls on a
\* shard is the number of flush calls, less the one in progress if that has
\* not reached the shard; a Clear that returns no rows is followed by no
\* insert call, a shard from which nothing was ever drained has no insert
\* call, and no insert call is made with zero rows.
C27_ClearOncePerShardPerPass ==
  /\ [](\A k \in Shards :
          clears[k] = IF Flushing /\ ~Reached(k) THEN FlushCalls - 1 ELSE FlushCalls)
  /\ [](\A k \in Shards : drained[k] = <<>> => CallsFor(k) = <<>>)
  /\ [](\A i \in 1..Len(inserts) : Len(inserts[i].rows) > 0)
  /\ []((runPc = "rows" /\ rows = <<>>) => ~ENABLED FlushInsert)
  /\ [][(runPc = "clearSplit" /\ runPc' = "rows" /\ rows' = <<>>) =>
         inserts' = inserts]_vars
  /\ [][inserts' # inserts =>
         /\ Len(rows) > 0
         /\ Len(inserts') = Len(inserts) + 1
         /\ inserts'[Len(inserts')].queue = flushK]_vars

\* C27 witness: a flush pass has gone over all shards, some of which held
\* events and were submitted while the others drained empty, and the second
\* pass is past shard 3
C27_Witness ==
  /\ FlushCalls = 2 /\ Flushing /\ flushK = 4
  /\ clears[3] = 2 /\ clears[15] = 1
  /\ CallsFor(2) # <<>> /\ CallsFor(3) # <<>>
  /\ \A k \in Shards \ LoadedShards : CallsFor(k) = <<>>

\* the value of uint32 v modulo queueSize (queueSize divides 2^16)
ModSize(v) == v.lo % queueSize

\* C28: the shard index chosen by Push is the counter & (size-1), that is the
\* counter modulo 16, and lies in 0..15 for every value of the 32-bit counter;
\* each increment moves the index on by one modulo 16, also when the counter
\* wraps from 2^32-1 to 0: no shard is skipped or repeated.
C28_IndexSurvivesWrap ==
  /\ [](\A p \in Producers : index[p] \in 0..(queueSize - 1))
  /\ [][\A p \in Producers : (pc[p] = "inc" /\ pc'[p] = "push") =>
         /\ index'[p] = ModSize(queueIndex')
         /\ index'[p] = (ModSize(queueIndex) + 1) % queueSize
         /\ (queueIndex = [hi |-> Half - 1, lo |-> Half - 1]) =>
              (queueIndex' = U32(0) /\ index'[p] = 0)]_vars
  /\ [][queueIndex' # queueIndex =>
         \E p \in Producers : pc[p] = "inc" /\ pc'[p] = "push"]_vars
  /\ [][\A p \in Producers : (pc[p] = "push" /\ pc'[p] = "idle") =>
         /\ Len(queues'[index[p]]) = Len(queues[index[p]]) + 1
         /\ \A k \in Shards \ {index[p]} : queues'[k] = queues[k]]_vars

\* C28 witness: the counter went from 2^32-2 over 2^32-1 to 0, and the two
\* pushes landed in shard 15 and in shard 0
C28_Witness ==
  /\ queueIndex = U32(0)
  /\ calls = 2 /\ AllIdle
  /\ Len(queues[queueSize - 1]) = 1
  /\ Len(queues[0]) = 1

\* the Push calls that hold an index for shard k and have not appended yet
Heading(k) == {p \in Producers : pc[p] = "push" /\ index[p] = k}

\* how many of the counter values 1..c select shard k
ValuesFor(k, c) == Cardinality({v \in 1..c : v % queueSize = k})

\* C29: the counter is incremented before it is used as an index.  On a new
\* Flusher the i-th of the Push calls made one after the other holds event i
\* in shard i mod 16: the first event is in shard 1 and the first event of
\* shard 0 is the 16th; a Push called after every earlier call has returned,
\* with no later call started, gets its call number modulo 16 as index.  Under
\* concurrent Push every
\* counter value is handed to exactly one caller: for each shard, the events
\* it holds and the calls heading for it are as many as the counter values
\* handed out so far that select it.
C29_IncrementBeforeUse ==
  /\ [](\A i \in 1..(pushLimit - MaxPush) :
          \E j \in 1..Len(queues[i % queueSize]) : queues[i % queueSize][j] = i)
  /\ [](pushLimit - MaxPush >= 1 => queues[1][1] = 1)
  /\ [][\A p \in Producers :
          (pc[p] = "inc" /\ pc'[p] = "push" /\ queueIndex = U32(0)) => index'[p] = 1]_vars
  /\ [](pushLimit - MaxPush >= queueSize => queues[0][1] = queueSize)
  /\ [][\A p \in Producers :
          (/\ pc[p] = "inc" /\ pc'[p] = "push"
           /\ item[p] = calls /\ accepted = 1..(calls - 1))
            => index'[p] = item[p] % queueSize]_vars
  /\ [](queueIndex.hi = 0 /\
        \A k \in Shards :
          Len(queues[k]) + Cardinality(Heading(k)) = ValuesFor(k, queueIndex.lo))

\* C29 witness: sixteen Push calls on a new Flusher, the last two made through
\* Flusher.Push one after the other: event 1 is in shard 1, event 15 in shard
\* 15, and event 16 is the first event of shard 0
C29_Witness ==
  /\ calls = queueSize /\ calls = pushLimit /\ AllIdle
  /\ queues[1] = <<1>>
  /\ queues[queueSize - 1] = <<queueSize - 1>>
  /\ queues[0] = <<queueSize>>

\* a step of a producer: of Server.Push or of the Flusher.Push it calls
ProducerStep == pc' # pc

\* C30: a successful Server.Push means accepted into memory only.  No step
\* of the call makes a database call or touches the flush; the step at which
\* it returns nil appends exactly one event to exactly one shard, and that
\* event has then been neither drained nor submitted; the call never waits
\* for a flush: whatever the run goroutine is doing, a call in progress can
\* take its next step; and the result stays: an event once accepted remains
\* accepted and is never rejected, also when its insert call fails later.
C30_AcceptedMeansInMemory ==
  /\ [][ProducerStep =>
         /\ inserts' = inserts /\ drained' = drained /\ clears' = clears
         /\ UNCHANGED runVars]_vars
  /\ [][accepted' # accepted =>
         \E e \in accepted' \ accepted :
           /\ accepted' = accepted \cup {e}
           /\ Cardinality({k \in Shards : queues'[k] # queues[k]}) = 1
           /\ \E k \in Shards : queues'[k] = Append(queues[k], e)
           /\ e \notin Inserted' /\ e \notin Held(drained')]_vars
  /\ [](\A p \in Producers :
          /\ pc[p] = "inc" => ENABLED PushInc(p)
          /\ pc[p] = "push" => ENABLED QueuePush(p)
          /\ (pc[p] = "row" /\ enabled) => ENABLED PushLoad(p))
  /\ [][accepted \subseteq accepted' /\ accepted' \cap rejected' = {}]_vars
  /\ [](\A i \in 1..Len(inserts) : Range(inserts[i].rows) \subseteq accepted)

\* C30 witness: a request was accepted; the insert call for its event failed
\* after Server.Push had returned nil, and the event remains accepted
C30_Witness ==
  /\ srvCalls = 1 /\ AllIdle
  /\ srvLast.err = "nil"
  /\ accepted = {1}
  /\ \E i \in 1..Len(inserts) : ~inserts[i].ok /\ inserts[i].rows = <<1>>
  /\ runPc = "select"

\* the log entries of the r-th Run about file f of the given kind
Entries(r, f, kind) ==
  SelectSeq(migLog, LAMBDA e : e.run = r /\ e.file = f /\ e.kind = kind)

\* the r-th Run failed at statement k of file f and stored that status
FailedAndStored(r, f, k) ==
  /\ \E i \in 1..Len(migLog) :
       migLog[i] = [run |-> r, file |-> f, kind |-> "exec", idx |-> k, ok |-> FALSE]
  /\ \E i \in 1..Len(migLog) :
       migLog[i] = [run |-> r, file |-> f, kind |-> "store", idx |-> k, ok |-> TRUE]

\* the r-th Run is done with file f: it has written, or tried to write, its status
FileDone(r, f) == Entries(r, f, "store") # <<>>

\* C31: migration resume: if the first Run failed at statement k of a
\* migration file and stored that status, the next Run executes no statement
\* of the file with index below k: the statements it executes are k, k+1, ...
\* in order, starting with the failed one, up to the first that fails, or to
\* the last statement of the file.
C31_ResumeFromFailedStatement ==
  \A f \in UpFiles : \A k \in 0..(migFS[f] - 1) :
    FailedAndStored(1, f, k) =>
      LET ex == Entries(2, f, "exec") IN
        /\ \A j \in 1..Len(ex) : ex[j].idx = k + j - 1
        /\ \A j \in 1..(Len(ex) - 1) : ex[j].ok
        /\ (Entries(2, f, "get") # <<>> /\ Entries(2, f, "get")[1].ok
              /\ (migRun = 2 => (migPc # "up" \/ CurFile # f \/ migIdx > k)))
             => (Len(ex) > 0 /\ ex[1].idx = k)
        /\ FileDone(2, f) =>
             (ex[Len(ex)].ok => Len(ex) = migFS[f] - k)

\* C31 witness: the first Run failed at the second statement of a file of two
\* or more and stored the status; the second Run executed the file from that
\* statement on and returned nil
C31_Witness ==
  /\ migResults = <<"exec error", "nil">>
  /\ \E f \in UpFiles :
       /\ FailedAndStored(1, f, 1)
       /\ Entries(2, f, "exec") # <<>>
       /\ Entries(2, f, "exec")[1] =
            [run |-> 2, file |-> f, kind |-> "exec", idx |-> 1, ok |-> TRUE]
       /\ migTable[f].status = "ok"

\* the r-th Run has read the status row of file f and found it not "ok":
\* up() is called for the file
Started(r, f) ==
  /\ Entries(r, f, "get") # <<>>
  /\ Entries(r, f, "get")[1].ok

\* the r-th Run is inside migrate(f), between db.Get and the status write
InMigrate(r, f) ==
  migRun = r /\ migPc \in {"up", "store"} /\ CurFile = f

\* the status record up() leaves for the statements ex it executed
StatusAfter(ex) ==
  IF \A j \in 1..Len(ex) : ex[j].ok
    THEN [present |-> TRUE, index |-> ex[Len(ex)].idx, status |-> "ok"]
    ELSE LET j == CHOOSE i \in 1..Len(ex) : ~ex[i].ok
         IN [present |-> TRUE, index |-> ex[j].idx, status |-> "exec error"]

SortRank(f) == CHOOSE i \in 1..Len(NameOrder) : NameOrder[i] = f

\* the position at which Run is to take file f: migrations.sql first, then
\* the *.up.sql files by name
RunRank(f) == IF f = MainFile THEN 0 ELSE SortRank(f)

\* a database call of Run that made migrate return an error
Failure(e) == ~e.ok /\ e.kind \in {"get", "exec"}

\* the error migrate returns on such a call
ErrorOf(e) == IF e.kind = "get" THEN "get error" ELSE "exec error"

\* C33: Run executes migrations.sql first and then the non-empty *.up.sql
\* files in sorted filename order, and no other file; the first file that
\* fails aborts Run with that error: after the failing call the Run does
\* nothing but write that file's status, so no statement of a later file is
\* executed in that Run; a Run that returns nil has executed or skipped
\* every file on its list.
C33_OrderAndAbort ==
  \A r \in 1..MigrateRuns :
    LET log == LogOf(r) IN
      /\ log # <<>> =>
           log[1] = [run |-> r, file |-> MainFile, kind |-> "exec", idx |-> 0,
                     ok |-> log[1].ok]
      /\ \A i \in 1..Len(log) :
           /\ log[i].file = MainFile \/
                (log[i].file \in UpFiles /\ migFS[log[i].file] > 0)
           /\ \A j \in (i + 1)..Len(log) :
                /\ RunRank(log[i].file) <= RunRank(log[j].file)
                /\ Failure(log[i]) =>
                     (j = i + 1 /\ log[j].kind = "store" /\ log[j].file = log[i].file)
           /\ (Failure(log[i]) /\ Len(migResults) >= r) => migResults[r] = ErrorOf(log[i])
      /\ (Len(migResults) >= r /\ migResults[r] = "nil") =>
           /\ \A i \in 1..Len(log) : ~Failure(log[i])
           /\ \A n \in 1..Len(RunList) : \E i \in 1..Len(log) : log[i].file = RunList[n]
      /\ (Len(migResults) >= r /\ migResults[r] # "nil") =>
           \E i \in 1..Len(log) : Failure(log[i])

\* C33 witness: the project has two non-empty *.up.sql files; the Run executed
\* migrations.sql, failed in the first of them and returned the error without
\* touching the second
C33_Witness ==
  /\ migResults = <<"exec error">>
  /\ \A f \in UpFiles : migFS[f] > 0
  /\ \E i \in 1..Len(migLog) :
       Failure(migLog[i]) /\ migLog[i].file = [stem |-> "1", suffix |-> ".up.sql"]
  /\ \A i \in 1..Len(migLog) : migLog[i].file # [stem |-> "2", suffix |-> ".up.sql"]

\* C34: the retry goroutine of ConnectWithRetry never sends on connErrCh
\* after the channel has been closed: once the caller has returned (its
\* deferred close has run) the goroutine's send does not hit a closed channel,
\* and the goroutine does not write the caller's named results db and err.
C34_NoSendAfterClose ==
  /\ [](connGo # "panic")
  /\ [][(connGo = "send" /\ connGo' # "send") => ~connClosed]_vars
  /\ [][connPc = "returned" => (connDb' = connDb /\ connErr' = connErr)]_vars

(* ------------- Queue / Pool: Clear called by two goroutines -------------- *)
\* Clear calls each goroutine makes
MaxClears == 2

\* no goroutine has panicked: an unrecovered panic ends the process
NoPanic == \A c \in Callers : clearPc[c] # "panic"

\* Push by a third goroutine, between any two steps of the Clear calls
ConcPush ==
  /\ NoPanic
  /\ PoolPush

\* Clear by goroutine c, first half: length := p.Length(), under the read
\* lock, which Length releases when it returns
ConcClearLength(c) ==
  /\ NoPanic
  /\ clearPc[c] = "idle"
  /\ clearCalls[c] < MaxClears
  /\ clearLength' = [clearLength EXCEPT ![c] = Len(poolValues)]
  /\ clearCalls' = [clearCalls EXCEPT ![c] = @ + 1]
  /\ clearPc' = [clearPc EXCEPT ![c] = "split"]
  /\ UNCHANGED <<clearReturned, poolKind, poolValues, poolPc, poolLength, poolSince,
                 poolLast, poolOps, statsVars, connVars, migVars>>

\* Clear by goroutine c, second half, under the write lock:
\* result, p.values = p.values[:length], p.values[length:].  Both slice
\* expressions are evaluated before either assignment: p.values[:length]
\* panics when length > cap(p.values), p.values[length:] panics when
\* length > len(p.values), and len <= cap, so the statement panics exactly
\* when length > len(p.values) and assigns nothing then.
ConcClearSplit(c) ==
  /\ NoPanic
  /\ clearPc[c] = "split"
  /\ IF clearLength[c] > Len(poolValues)
       THEN /\ clearPc' = [clearPc EXCEPT ![c] = "panic"]
            /\ UNCHANGED <<poolValues, clearReturned>>
       ELSE /\ clearReturned' = [clearReturned EXCEPT
                                   ![c] = @ \o Slice(poolValues, 0, clearLength[c])]
            /\ poolValues' = Slice(poolValues, clearLength[c], Len(poolValues))
            /\ clearPc' = [clearPc EXCEPT ![c] = "idle"]
  /\ UNCHANGED <<clearLength, clearCalls, poolKind, poolPc, poolLength, poolSince,
                 poolLast, poolOps, statsVars, connVars, migVars>>

\* NewQueue() or NewPool(), then Push and two goroutines calling Clear
InitClear == InitPool

NextClear ==
  \/ ConcPush
  \/ \E c \in Callers : ConcClearLength(c)
  \/ \E c \in Callers : ConcClearSplit(c)

SpecClear == InitClear /\ [][NextClear]_vars

\* C35: Clear is safe when two Clear calls on the same queue run concurrently,
\* with or without concurrent Push: neither call panics (slices past the
\* current length), every slot of a returned slice holds a pushed item, and
\* no event is returned twice, by both calls or by one.
C35_ConcurrentClearSafe ==
  LET ReturnedBy(c) == {clearReturned[c][i] : i \in 1..Len(clearReturned[c])}
  IN /\ NoPanic
     /\ \A c \in Callers : ReturnedBy(c) \subseteq 1..poolOps
     /\ ReturnedBy(1) \cap ReturnedBy(2) = {}
     /\ \A c \in Callers : Cardinality(ReturnedBy(c)) = Len(clearReturned[c])

(* -------------- an HTTP request to Push, behind WrapWithIP --------------- *)
\* The handler WrapWithIP returns: compute ip, ctx = SetIPToContext(r.Context(),
\* ip), h.ServeHTTP(w, r.WithContext(ctx)); without the wrapper the inner
\* handler gets r.Context() as it is
HttpServe ==
  /\ httpPc = "start"
  /\ httpCtx' = IF httpReq.wrapped THEN SetIPToContext(RequestCtx, ClientIP(httpReq))
                ELSE RequestCtx
  /\ httpPc' = "handler"
  /\ UNCHANGED <<httpReq, httpCancelled, httpBy, httpRow, srvCalls, srvLast>>
  /\ UNCHANGED <<enabled, queueIndex, queues, ctxDone, done, runVars, pushVars,
                 shutVars, histVars, pushLimit, tickLimit, locked, pushFrom, libVars>>

\* Server.Push(ctx, r) called for the request by producer p:
\* ctx = internal.ContextWithoutCancel(ctx), validate, NextID, and
\* row.RemoteIP = internal.GetIPFromContext(ctx) when the row is built
HttpPush(p) ==
  /\ httpPc = "handler"
  /\ ServerPushRow(p)
  /\ LET ctx == ContextWithoutCancel(httpCtx)
     IN /\ httpCtx' = ctx
        /\ httpRow' = IF pc'[p] = "row"
                        THEN [built |-> TRUE, RemoteIP |-> GetIPFromContext(ctx)]
                        ELSE NoRow
  /\ httpPc' = IF pc'[p] = "row" THEN "flusher" ELSE "returned"
  /\ httpBy' = p
  /\ UNCHANGED <<httpReq, httpCancelled>>

\* return pushResponseDefault, svc.flusher.Push(row): Flusher.Push has returned
HttpReturn ==
  /\ httpPc = "flusher"
  /\ pc[httpBy] = "idle"
  /\ httpPc' = "returned"
  /\ UNCHANGED <<httpReq, httpCtx, httpCancelled, httpBy, httpRow, srvCalls, srvLast>>
  /\ UNCHANGED <<enabled, queueIndex, queues, ctxDone, done, runVars, pushVars,
                 shutVars, histVars, pushLimit, tickLimit, locked, pushFrom, libVars>>

\* the client goes away: net/http cancels the request's context
HttpDisconnect ==
  /\ ~httpCancelled
  /\ httpCancelled' = TRUE
  /\ UNCHANGED <<httpReq, httpPc, httpCtx, httpBy, httpRow, srvCalls, srvLast>>
  /\ UNCHANGED <<enabled, queueIndex, queues, ctxDone, done, runVars, pushVars,
                 shutVars, histVars, pushLimit, tickLimit, locked, pushFrom, libVars>>

\* one request arrives at a server whose flusher runs
InitHttp ==
  /\ FlusherStart
  /\ LibIdle
  /\ pushFrom = "row"
  /\ srvCalls = 0
  /\ srvLast = NoCall
  /\ queueIndex = U32(0)
  /\ queues = NewQueues(queueSize)
  /\ appended = [k \in Shards |-> <<>>]
  /\ accepted = {}
  /\ calls = 0
  /\ pushLimit = 1
  /\ tickLimit = 0
  /\ httpReq \in HttpRequests
  /\ httpPc = "start"
  /\ httpCtx = RequestCtx
  /\ httpCancelled = FALSE
  /\ httpBy = 1
  /\ httpRow = NoRow

NextHttp ==
  \/ HttpServe
  \/ HttpDisconnect
  \/ \E p \in Producers : HttpPush(p)
  \/ \E p \in Producers : PushLoad(p)
  \/ \E p \in Producers : PushDisabled(p)
  \/ \E p \in Producers : PushInc(p)
  \/ \E p \in Producers : QueuePush(p)
  \/ HttpReturn
  \/ RunCancel
  \/ Cancel

SpecHttp == InitHttp /\ [][NextHttp]_vars

\* C36: the context Server.Push works with is never cancelled: once
\* Server.Push has wrapped it, Done() and Err() are nil, also after the
\* request's context has been cancelled, while the parent's values are still
\* returned (the row gets the remote IP that was set); and a request inside
\* Flusher.Push can always take its next step, cancelled or not.
C36_PushContextNeverCancelled ==
  LET IPSet == IF httpReq.wrapped THEN ClientIP(httpReq) ELSE <<>>
  IN /\ srvCalls >= 1 =>
          /\ Done(httpCtx) = "nil"
          /\ Err(httpCtx) = "nil"
          /\ GetIPFromContext(httpCtx) = IPSet
     /\ httpRow.built => httpRow.RemoteIP = IPSet
     /\ httpPc = "flusher" =>
          ENABLED (\/ PushLoad(httpBy)
                   \/ PushDisabled(httpBy)
                   \/ PushInc(httpBy)
                   \/ QueuePush(httpBy)
                   \/ HttpReturn)

\* the client has gone, the request is inside Queue.Push, its row carries the
\* IP from the header
C36_Witness ==
  /\ httpCancelled
  /\ httpPc = "flusher"
  /\ pc[httpBy] = "push"
  /\ httpReq.wrapped
  /\ httpRow.RemoteIP = <<"a">>
  /\ Done(httpCtx) = "nil"
  /\ Done(httpCtx.parent) = "closed"

\* C37: WrapWithIP stores in the request context the first address of
\* X-Forwarded-For when that header is not empty, otherwise the first address
\* of X-Real-IP when not empty, otherwise RemoteAddr with the port stripped;
\* GetIPFromContext returns exactly that value, and the empty string when no
\* IP was set.
C37_ClientIPStored ==
  LET \* the first address of a header value: the value up to its first comma
      FirstAddress(h) == SplitN2First(h, <<",">>)
      \* host:port without the port: the address up to its last colon, the
      \* whole address when it has none
      PortStripped(addr) ==
        LET at == {i \in 1..Len(addr) : addr[i] = ":"}
        IN IF at = {} THEN addr
           ELSE SubSeq(addr, 1, (CHOOSE i \in at : \A j \in at : j <= i) - 1)
      WantedIP(r) ==
        IF r.xff # <<>> THEN FirstAddress(r.xff)
        ELSE IF r.xri # <<>> THEN FirstAddress(r.xri)
        ELSE PortStripped(r.remoteAddr)
  IN httpPc # "start" =>
       GetIPFromContext(httpCtx) = IF httpReq.wrapped THEN WantedIP(httpReq) ELSE <<>>

====
